---- MODULE Spec2Model ----
(***************************************************************************)
(* Model of the lolo-cej-scraping coordination engine.                     *)
(*                                                                         *)
(* The module holds several specifications over one set of variables; each *)
(* specification leaves the variables of the other components unchanged:   *)
(*   SpecPool   - BrowserPool under concurrent callers                     *)
(*                (src/scraping/browser/browser-pool.ts)                   *)
(*   SpecSched  - the cron callback of the scheduler                       *)
(*                (src/scheduler/scheduler.service.ts)                     *)
(*   SpecQueue  - the three BullMQ queues, their producers and the job     *)
(*                life cycle (src/queue, workers/worker.config)            *)
(*   SpecWorker - processScrapeJob attempts running concurrently against   *)
(*                the BrowserPool and the relational store                 *)
(*                (workers/scrape.worker, persistence/repositories)        *)
(*                                                                         *)
(* Node.js runs one callback at a time: an action is the code executed     *)
(* between two awaits (or two awaits whose first touches no shared state). *)
(***************************************************************************)
EXTENDS Integers, Sequences, FiniteSets, TLC

----------------------------------------------------------------------------
(* Bounds of the model *)

\* number of concurrent callers of the BrowserPool (SpecPool)
NumTasks == 4
\* acquire() calls made in one behaviour of SpecPool
MaxAcquires == 4
\* BrowserPool constructor argument maxSize (config.browserPoolSize)
maxSize == 2
\* BrowserPool constructor argument maxPagesPerBrowser
maxPagesPerBrowser == 2
\* drain() calls made in one behaviour of SpecPool
MaxDrains == 1

\* CaseFiles known to the service
NumCaseFiles == 1
\* concurrent invocations of the cron callback that can be alive at once
NumTickSlots == 2
\* firings of the cron callback in one behaviour
MaxTickFires == 3
\* batches returned by one planNextBatch() call
MaxBatches == 2
\* concurrent callers of the producers enqueueInitialScrape / enqueuePriorityScrape
NumProducers == 2
\* producer calls (enqueueInitialScrape, enqueuePriorityScrape) in one behaviour
MaxEnqueues == 2
\* job attempts started in one behaviour of SpecQueue
MaxStarts == 3
\* the clock runs from 0 to MaxNow ticks
MaxNow == 2
\* calendar days (America/Lima) run from 1 to MaxDay
MaxDay == 2
\* config.workerConcurrency
workerConcurrency == 2
\* config.rateLimitMax
rateLimitMax == 1
\* config.rateLimitDurationMs, in clock ticks
rateLimitDuration == 2

\* case files whose first scrape is requested in SpecInitial
NumInitialCaseFiles == 2
\* processor invocations that persist binnacles at once in SpecPersist
NumPersistJobs == 2
\* attempts that reach the binnacle upsert in one behaviour of SpecPersist
MaxPersistRuns == 2
\* download / upload failures in one behaviour of SpecPersist
MaxPersistFaults == 1
\* longest binnacle list given to computeStructuredDiff in SpecDiff
MaxBinnacles == 2
\* the day of the scheduler tick in SpecDue, counted from the oldest date
PlanDay == 100
\* most notification hours of one schedule in SpecPriority
MaxHours == 2
\* longest strategy list given to CaptchaSolver in SpecCaptcha
MaxStrategies == 3
\* removeOnComplete.count of the queues (1000 in queue.config.ts)
KeepCompleted == 1
\* BullMQ processor invocations that run at once in SpecWorker
NumWorkers == 2
\* job attempts started in one behaviour of SpecWorker
MaxAttemptsTotal == 3
\* exceptions injected into the steps of processScrapeJob in one behaviour
MaxFaults == 2
\* shutdown signals delivered to the process
MaxSignals == 2
\* customer-has-bank rows and case files the planner reads
NumPlanChbs == 2
NumPlanCaseFiles == 2
\* callers of the RateLimiter and the calls they make
NumLimCallers == 2
MaxLimCalls == 4

Tasks == 1..NumTasks
Workers == 1..NumWorkers
CaseFiles == 1..NumCaseFiles
TickSlots == 1..NumTickSlots
Producers == 1..NumProducers
Signals == 1..MaxSignals

None == 0

----------------------------------------------------------------------------
VARIABLES
  \* ---- BrowserPool ----
  pooled,       \* the PooledBrowser objects ever created: id -> [browser, pageCount, inUse]
  pool,         \* BrowserPool.pool: sequence of PooledBrowser ids
  waitQueue,    \* BrowserPool.waitQueue: sequence of callers whose resolve is queued
  nextBrowser,  \* number of Browser instances launched so far (ids 1..nextBrowser)
  closed,       \* Browser instances on which close() was called
  acq,          \* per caller: state of its pending acquire() call
  held,         \* per caller: the Browser it obtained from acquire(), or None
  acquireCalls, \* number of acquire() calls made
  drainSt,      \* position of the drain() call: [st, idx]
  drainCalls    \* number of drain() calls made

poolVars == <<pooled, pool, waitQueue, nextBrowser, closed, acq, held,
              acquireCalls, drainSt, drainCalls>>

VARIABLES
  \* ---- clock ----
  now,          \* Date.now(), in ticks
  today,        \* nowLima().format("YYYYMMDD"), as a day number
  \* ---- BullMQ queues ----
  jobs,         \* the jobs stored in Redis, in the order they were added
  rl,           \* per queue: the rate-limit key [count, expiresAt]
  recentStarts, \* start times of the attempts begun in the last rateLimitDuration ticks
  enqueues,     \* number of producer calls made
  starts,       \* number of job attempts started
  ignoredAdds,  \* number of Queue.add calls that found their jobId present
  prod,         \* per producer call: [pc, lane, id, cf]
  \* ---- scheduler ----
  isRunning,    \* scheduler.service.ts: let isRunning
  tick,         \* per cron callback invocation: [pc, batches, dateStr, i, planned, added]
  tickFires     \* number of cron firings

VARIABLES
  \* ---- the Portal ----
  portal,       \* per CaseFile: the binnacle list the CEJ site shows
  \* ---- relational store ----
  snapshots,    \* SCRAPE_SNAPSHOT rows, in creation order
  changelog,    \* SCRAPE_CHANGE_LOG rows, in insertion order
  caseFile,     \* per CaseFile: JUDICIAL_CASE_FILE flags
  \* ---- workers ----
  wk,           \* per processor invocation: the locals of processScrapeJob
  attempts,     \* number of job attempts started
  faults,       \* number of exceptions injected
  successes,    \* per CaseFile: attempts that returned (history)
  noChangeRun   \* per CaseFile: successful no-change scrapes since the last
                \* first or changed one (history)

VARIABLES
  \* ---- pure functions studied on their own ----
  call,         \* the arguments of the function under study
  ret           \* what it returned, <<>> before the call

VARIABLES
  \* ---- process lifecycle: src/index.ts, worker.manager stopWorkers ----
  sd,           \* per shutdown(signal) invocation: [pc, i, idx, busy]
  proc          \* [workers: workers.length, browserPool: browserPool is set,
                \*  exited: process.exit was called]

VARIABLES
  \* ---- RateLimiter: scraping/rate-limiter (part_014) ----
  bucket,       \* [tokens, lastRefill]; tokens in units of 1/windowMs token
  lim,          \* per caller: [pc, wakeAt] of its waitForToken call
  limCalls      \* number of tryAcquire / waitForToken calls made

VARIABLES
  \* ---- binnacle and attachment persistence of processScrapeJob ----
  binnacles,     \* JUDICIAL_BINNACLE rows, in creation order (the id is the position)
  binFiles,      \* JUDICIAL_BIN_FILE rows: [judicialBinnacleId, originalName]
  pj,            \* per processor invocation: the locals of lines 153-208
  persistRuns,   \* number of attempts that reached line 153
  persistFaults  \* number of download / upload failures injected

pureVars == <<call, ret>>
persistVars == <<binnacles, binFiles, pj, persistRuns, persistFaults>>
limiterVars == <<bucket, lim, limCalls>>
stopVars == <<sd, proc>>
dbVars == <<portal, snapshots, changelog, caseFile>>
workerVars == <<wk, attempts, faults, successes, noChangeRun>>

clockVars == <<now, today>>
queueVars == <<jobs, rl, recentStarts, enqueues, starts, ignoredAdds, prod>>
schedVars == <<isRunning, tick, tickFires>>

vars == <<poolVars, clockVars, queueVars, schedVars, dbVars, workerVars, pureVars,
          stopVars, limiterVars, persistVars>>

\* what each specification leaves alone
nonPoolVars == <<clockVars, queueVars, schedVars, dbVars, workerVars, pureVars,
                 stopVars, limiterVars, persistVars>>
nonQueueVars == <<poolVars, dbVars, workerVars, pureVars, stopVars, limiterVars,
                  persistVars>>
nonWorkerVars == <<clockVars, queueVars, schedVars, pureVars, stopVars, limiterVars,
                   persistVars>>
nonPureVars == <<poolVars, clockVars, queueVars, schedVars, dbVars, workerVars,
                 stopVars, limiterVars, persistVars>>
nonStopVars == <<clockVars, queueVars, schedVars, dbVars, workerVars, pureVars,
                 limiterVars, persistVars>>
nonLimiterVars == <<poolVars, queueVars, schedVars, dbVars, workerVars, pureVars,
                    stopVars, persistVars>>
nonPersistVars == <<poolVars, clockVars, queueVars, schedVars, dbVars, workerVars,
                    pureVars, stopVars, limiterVars>>

----------------------------------------------------------------------------
(* BrowserPool: src/scraping/browser/browser-pool.ts *)

AcqNone == [st |-> "none", ref |-> None, res |-> None]

\* indices of pool entries that are not in use
FreeIdx == {i \in 1..Len(pool) : ~pooled[pool[i]].inUse}

\* this.pool.find((pb) => !pb.inUse): first match in array order
FindAvailable == IF FreeIdx = {} THEN None
                 ELSE pool[CHOOSE i \in FreeIdx : \A k \in FreeIdx : i <= k]

\* this.pool.find((pb) => pb.browser === browser)
FindByBrowser(b) ==
  LET idx == {i \in 1..Len(pool) : pooled[pool[i]].browser = b}
  IN IF idx = {} THEN None
     ELSE pool[CHOOSE i \in idx : \A k \in idx : i <= k]

\* acquire(), line 60: the recycle test on the incremented page count
NeedsRecycle(pageCount) == pageCount >= maxPagesPerBrowser

\* acquire(), line 73: is the pool allowed to grow
PoolNotFull == Len(pool) < maxSize

\* acquire() up to its first await (lines 52-84)
acquire(t) ==
  /\ acq[t].st = "none"
  /\ LET a == FindAvailable IN
     IF a # None THEN
       LET pc == pooled[a].pageCount + 1 IN
       /\ pooled' = [pooled EXCEPT ![a].inUse = TRUE, ![a].pageCount = pc]
       /\ IF NeedsRecycle(pc)
          THEN acq' = [acq EXCEPT ![t] = [st |-> "recycleClose", ref |-> a, res |-> None]]
          ELSE acq' = [acq EXCEPT ![t] = [st |-> "resolved", ref |-> None,
                                          res |-> pooled[a].browser]]
       /\ UNCHANGED <<pool, waitQueue>>
     ELSE IF PoolNotFull THEN
       /\ acq' = [acq EXCEPT ![t] = [st |-> "launchNew", ref |-> None, res |-> None]]
       /\ UNCHANGED <<pooled, pool, waitQueue>>
     ELSE
       /\ waitQueue' = Append(waitQueue, t)
       /\ acq' = [acq EXCEPT ![t] = [st |-> "queued", ref |-> None, res |-> None]]
       /\ UNCHANGED <<pooled, pool>>
  /\ UNCHANGED <<nextBrowser, closed>>

\* acquire() lines 74-77: launchBrowser() resolved, the new entry is pushed
acquireLaunched(t) ==
  /\ acq[t].st = "launchNew"
  /\ LET b == nextBrowser + 1 IN
     /\ nextBrowser' = b
     /\ pooled' = pooled @@ (b :> [browser |-> b, pageCount |-> 1, inUse |-> TRUE])
     /\ pool' = Append(pool, b)
     /\ acq' = [acq EXCEPT ![t] = [st |-> "resolved", ref |-> None, res |-> b]]
  /\ UNCHANGED <<waitQueue, closed>>

\* acquire() line 74: launchBrowser() rejected (puppeteer.launch failed)
acquireLaunchFailed(t) ==
  /\ acq[t].st = "launchNew"
  /\ acq' = [acq EXCEPT ![t] = [st |-> "rejected", ref |-> None, res |-> None]]
  /\ UNCHANGED <<pooled, pool, waitQueue, nextBrowser, closed>>

\* recycle() lines 108-112: browser.close() settled (a failure is swallowed)
recycleClosed(t) ==
  /\ acq[t].st = "recycleClose"
  /\ closed' = closed \cup {pooled[acq[t].ref].browser}
  /\ acq' = [acq EXCEPT ![t].st = "recycleLaunch"]
  /\ UNCHANGED <<pooled, pool, waitQueue, nextBrowser>>

\* recycle() lines 113-114 and acquire() line 66: the replacement launched
recycleLaunched(t) ==
  /\ acq[t].st = "recycleLaunch"
  /\ LET b == nextBrowser + 1
         a == acq[t].ref IN
     /\ nextBrowser' = b
     /\ pooled' = [pooled EXCEPT ![a].browser = b, ![a].pageCount = 0]
     /\ acq' = [acq EXCEPT ![t] = [st |-> "resolved", ref |-> None, res |-> b]]
  /\ UNCHANGED <<pool, waitQueue, closed>>

\* recycle() line 113: launchBrowser() rejected, acquire() rejects
recycleLaunchFailed(t) ==
  /\ acq[t].st = "recycleLaunch"
  /\ acq' = [acq EXCEPT ![t] = [st |-> "rejected", ref |-> None, res |-> None]]
  /\ UNCHANGED <<pooled, pool, waitQueue, nextBrowser, closed>>

\* release(browser) handing the session to the newest waiter
releaseNewestFirst(b) ==
  LET a == FindByBrowser(b) IN
  IF a = None THEN UNCHANGED <<pooled, pool, waitQueue, acq>>
  ELSE IF Len(waitQueue) > 0 THEN
    LET w == waitQueue[Len(waitQueue)] IN
    /\ waitQueue' = SubSeq(waitQueue, 1, Len(waitQueue) - 1)
    /\ pooled' = [pooled EXCEPT ![a].inUse = TRUE,
                                ![a].pageCount = pooled[a].pageCount + 1]
    /\ acq' = [acq EXCEPT ![w] = [st |-> "resolved", ref |-> None, res |-> b]]
    /\ UNCHANGED pool
  ELSE
    /\ pooled' = [pooled EXCEPT ![a].inUse = FALSE]
    /\ UNCHANGED <<pool, waitQueue, acq>>

\* release(browser), lines 89-102 (no await inside)
release(b) ==
  LET a == FindByBrowser(b) IN
  IF a = None THEN UNCHANGED <<pooled, pool, waitQueue, acq>>
  ELSE IF Len(waitQueue) > 0 THEN
    LET w == Head(waitQueue) IN
    /\ waitQueue' = Tail(waitQueue)
    /\ pooled' = [pooled EXCEPT ![a].inUse = TRUE,
                                ![a].pageCount = pooled[a].pageCount + 1]
    /\ acq' = [acq EXCEPT ![w] = [st |-> "resolved", ref |-> None, res |-> b]]
    /\ UNCHANGED pool
  ELSE
    /\ pooled' = [pooled EXCEPT ![a].inUse = FALSE]
    /\ UNCHANGED <<pool, waitQueue, acq>>

DrainIdle == [st |-> "none", idx |-> 0]

\* drain() lines 120-131: entered; the first close() is awaited, or the
\* pool is empty and the arrays are replaced at once
drainStart ==
  /\ drainSt.st = "none"
  /\ drainCalls < MaxDrains
  /\ drainCalls' = drainCalls + 1
  /\ IF Len(pool) = 0
     THEN /\ waitQueue' = <<>>
          /\ drainSt' = [st |-> "done", idx |-> 0]
          /\ UNCHANGED <<closed, pool>>
     ELSE /\ closed' = closed \cup {pooled[pool[1]].browser}
          /\ drainSt' = [st |-> "closing", idx |-> 1]
          /\ UNCHANGED <<pool, waitQueue>>
  /\ UNCHANGED <<pooled, nextBrowser, acq, held, acquireCalls>>
  /\ UNCHANGED nonPoolVars

\* drain(): one close() settled; the loop goes on to the next entry of the
\* array (entries pushed meanwhile included) or ends and empties the pool
drainStep ==
  /\ drainSt.st = "closing"
  /\ IF drainSt.idx < Len(pool)
     THEN /\ closed' = closed \cup {pooled[pool[drainSt.idx + 1]].browser}
          /\ drainSt' = [st |-> "closing", idx |-> drainSt.idx + 1]
          /\ UNCHANGED <<pool, waitQueue>>
     ELSE /\ pool' = <<>>
          /\ waitQueue' = <<>>
          /\ drainSt' = [st |-> "done", idx |-> 0]
          /\ UNCHANGED closed
  /\ UNCHANGED <<pooled, nextBrowser, acq, held, acquireCalls, drainCalls>>
  /\ UNCHANGED nonPoolVars

\* the drain() promise resolved; drain() may be called again
drainReturn ==
  /\ drainSt.st = "done"
  /\ drainSt' = DrainIdle
  /\ UNCHANGED <<pooled, pool, waitQueue, nextBrowser, closed, acq, held,
                 acquireCalls, drainCalls>>
  /\ UNCHANGED nonPoolVars

----------------------------------------------------------------------------
(* Callers of the pool in SpecPool *)

ClientAcquire(t) ==
  /\ held[t] = None
  /\ acquireCalls < MaxAcquires
  /\ acquire(t)
  /\ acquireCalls' = acquireCalls + 1
  /\ UNCHANGED <<held, drainSt, drainCalls>>
  /\ UNCHANGED nonPoolVars

ClientLaunched(t) ==
  /\ acquireLaunched(t)
  /\ UNCHANGED <<held, acquireCalls, drainSt, drainCalls>>
  /\ UNCHANGED nonPoolVars

ClientLaunchFailed(t) ==
  /\ acquireLaunchFailed(t)
  /\ UNCHANGED <<held, acquireCalls, drainSt, drainCalls>>
  /\ UNCHANGED nonPoolVars

ClientRecycleClosed(t) ==
  /\ recycleClosed(t)
  /\ UNCHANGED <<held, acquireCalls, drainSt, drainCalls>>
  /\ UNCHANGED nonPoolVars

ClientRecycleLaunched(t) ==
  /\ recycleLaunched(t)
  /\ UNCHANGED <<held, acquireCalls, drainSt, drainCalls>>
  /\ UNCHANGED nonPoolVars

ClientRecycleLaunchFailed(t) ==
  /\ recycleLaunchFailed(t)
  /\ UNCHANGED <<held, acquireCalls, drainSt, drainCalls>>
  /\ UNCHANGED nonPoolVars

\* the caller's await on acquire() resumes with the browser
ClientGot(t) ==
  /\ acq[t].st = "resolved"
  /\ held' = [held EXCEPT ![t] = acq[t].res]
  /\ acq' = [acq EXCEPT ![t] = AcqNone]
  /\ UNCHANGED <<pooled, pool, waitQueue, nextBrowser, closed, acquireCalls,
                 drainSt, drainCalls>>
  /\ UNCHANGED nonPoolVars

\* the caller's await on acquire() resumes with the rejection
ClientRejected(t) ==
  /\ acq[t].st = "rejected"
  /\ acq' = [acq EXCEPT ![t] = AcqNone]
  /\ UNCHANGED <<pooled, pool, waitQueue, nextBrowser, closed, held,
                 acquireCalls, drainSt, drainCalls>>
  /\ UNCHANGED nonPoolVars

ClientRelease(t) ==
  /\ held[t] # None
  /\ release(held[t])
  /\ held' = [held EXCEPT ![t] = None]
  /\ UNCHANGED <<nextBrowser, closed, acquireCalls, drainSt, drainCalls>>
  /\ UNCHANGED nonPoolVars

\* no pure function is under study
PureIdle == call = <<>> /\ ret = <<>>

\* index.ts: no signal was received; the workers array and browserPool are
\* as startWorkers left them (worker.manager lines 343-350)
SdIdle == [pc |-> "none", i |-> 0, idx |-> 0, busy |-> {}]
ProcStarted == [workers |-> NumWorkers, browserPool |-> TRUE, exited |-> FALSE]
LimIdle == [pc |-> "idle", wakeAt |-> 0]
\* RateLimiter constructor (part_014 lines 17-25) with Date.now() = 0: the
\* bucket is full; one token is rateLimitDuration units
LimiterInit ==
  /\ bucket = [tokens |-> rateLimitMax * rateLimitDuration, lastRefill |-> 0]
  /\ lim = [c \in 1..NumLimCallers |-> LimIdle]
  /\ limCalls = 0
\* processScrapeJob before line 153
PjIdle == [pc |-> "idle", scraped |-> <<>>, existing |-> {}, rows |-> {},
           i |-> 0, stamp |-> 0, fileFault |-> "none", saved |-> FALSE]
\* the binnacle and file tables are empty and no attempt persists anything
PersistInit ==
  /\ binnacles = <<>>
  /\ binFiles = {}
  /\ pj = [j \in 1..NumPersistJobs |-> PjIdle]
  /\ persistRuns = 0
  /\ persistFaults = 0
\* no signal was received, the rate limiter was not called and nothing was
\* persisted
StopIdle ==
  /\ sd = [k \in Signals |-> SdIdle] /\ proc = ProcStarted
  /\ LimiterInit
  /\ PersistInit

PoolInit ==
  /\ pooled = <<>>
  /\ pool = <<>>
  /\ waitQueue = <<>>
  /\ nextBrowser = 0
  /\ closed = {}
  /\ acq = [t \in Tasks |-> AcqNone]
  /\ held = [t \in Tasks |-> None]
  /\ acquireCalls = 0
  /\ drainSt = DrainIdle
  /\ drainCalls = 0


NextPool ==
  \/ \E t \in Tasks : ClientAcquire(t)
  \/ \E t \in Tasks : ClientLaunched(t)
  \/ \E t \in Tasks : ClientLaunchFailed(t)
  \/ \E t \in Tasks : ClientRecycleClosed(t)
  \/ \E t \in Tasks : ClientRecycleLaunched(t)
  \/ \E t \in Tasks : ClientRecycleLaunchFailed(t)
  \/ \E t \in Tasks : ClientGot(t)
  \/ \E t \in Tasks : ClientRejected(t)
  \/ \E t \in Tasks : ClientRelease(t)
  \/ drainStart
  \/ drainStep
  \/ drainReturn


----------------------------------------------------------------------------
(* Clock *)

\* time passes by one tick; start times older than the rate-limit window
\* are forgotten
advanceTime ==
  /\ now < MaxNow
  /\ now' = now + 1
  /\ recentStarts' = SelectSeq(recentStarts, LAMBDA st : st > now' - rateLimitDuration)
  /\ UNCHANGED <<today, jobs, rl, enqueues, starts, ignoredAdds, prod>>
  /\ UNCHANGED <<schedVars, nonQueueVars>>

\* midnight in America/Lima
dayRollover ==
  /\ today < MaxDay
  /\ today' = today + 1
  /\ UNCHANGED <<now, queueVars, schedVars, nonQueueVars>>

----------------------------------------------------------------------------
(* RateLimiter: scraping/rate-limiter (part_014 lines 11-80).  tokens and   *)
(* refillRate are fractions in the code; here tokens is counted in units of *)
(* 1/windowMs token, so that elapsed * refillRate is elapsed * maxTokens    *)
(* units and one token is windowMs units.                                   *)

OneToken == rateLimitDuration
BucketMax == rateLimitMax * OneToken

\* refill(), lines 66-71
refill(b, t) ==
  LET filled == b.tokens + (t - b.lastRefill) * rateLimitMax IN
  [tokens |-> IF filled > BucketMax THEN BucketMax ELSE filled, lastRefill |-> t]

\* Math.ceil((1 - this.tokens) / this.refillRate), line 57
waitMs(tokens) == ((OneToken - tokens) + rateLimitMax - 1) \div rateLimitMax

\* tryAcquire(), lines 31-40
tryAcquire(c) ==
  /\ lim[c].pc = "idle"
  /\ limCalls < MaxLimCalls
  /\ limCalls' = limCalls + 1
  /\ LET b == refill(bucket, now) IN
     bucket' = IF b.tokens >= OneToken THEN [b EXCEPT !.tokens = @ - OneToken] ELSE b
  /\ UNCHANGED <<lim, clockVars, nonLimiterVars>>

\* waitForToken(), lines 46-58: a token is taken at once, or the caller
\* computes its wait and sleeps
waitForToken(c) ==
  /\ lim[c].pc = "idle"
  /\ limCalls < MaxLimCalls
  /\ limCalls' = limCalls + 1
  /\ LET b == refill(bucket, now) IN
     IF b.tokens >= OneToken
     THEN /\ bucket' = [b EXCEPT !.tokens = @ - OneToken]
          /\ UNCHANGED lim
     ELSE /\ bucket' = b
          /\ lim' = [lim EXCEPT ![c] = [pc |-> "sleeping",
                                        wakeAt |-> now + waitMs(b.tokens)]]
  /\ UNCHANGED <<clockVars, nonLimiterVars>>

\* waitForToken(), lines 58-62: the timer fired (at its time or later);
\* refill, then this.tokens -= 1, and the call returns
timerFires(c) ==
  /\ lim[c].pc = "sleeping"
  /\ now >= lim[c].wakeAt
  /\ bucket' = [refill(bucket, now) EXCEPT !.tokens = @ - OneToken]
  /\ lim' = [lim EXCEPT ![c] = LimIdle]
  /\ UNCHANGED <<limCalls, clockVars, nonLimiterVars>>

----------------------------------------------------------------------------
(* Constants of config/constants.ts *)

QUEUE_INITIAL == "scrape-initial"
QUEUE_MONITOR == "scrape-monitor"
QUEUE_PRIORITY == "scrape-priority"
Lanes == {QUEUE_INITIAL, QUEUE_MONITOR, QUEUE_PRIORITY}

PRIORITY_CRITICAL == 1
PRIORITY_HIGH == 2
PRIORITY_MEDIUM == 3
PRIORITY_LOW == 5

MAX_ATTEMPTS == 3

\* the error codes an attempt can end with (ERROR_CODES); UNKNOWN stands for
\* every error that is not a ScrapeError
ErrorKinds == {"CAPTCHA_FAILED", "INVALID_CASE_NUMBER", "VALIDATION_FAILED", "UNKNOWN"}

\* ScrapeError.retryable as set by the error classes; an error that is not a
\* ScrapeError has no such field (scrapeError?.retryable is undefined)
RetryableField(kind) ==
  CASE kind = "CAPTCHA_FAILED" -> "true"
    [] kind = "INVALID_CASE_NUMBER" -> "false"
    [] kind = "VALIDATION_FAILED" -> "false"
    [] OTHER -> "undefined"

----------------------------------------------------------------------------
(* BullMQ queues: queue/queue.config.ts, queue/queue.producer.ts,          *)
(* workers/worker.config.ts                                                *)

\* jobId of enqueueInitialScrape: `initial-${caseFileId}-${YYYYMMDD}`
InitialJobId(cf, day) == <<"initial", cf, day>>
\* jobId of enqueueMonitorBatch: `monitor-${caseFileId}-${dateStr}`
MonitorJobId(cf, dateStr) == <<"monitor", cf, dateStr>>
\* jobId of enqueuePriorityScrape: `priority-${caseFileId}-${Date.now()}`
PriorityJobId(cf, ms) == <<"priority", cf, ms>>

\* the SCRAPE_JOB_LOG row of the latest attempt of a job (rows of earlier
\* attempts are never written again); `rows` counts the rows created
NoRow == [attempt |-> 0, status |-> "", code |-> ""]

NewJob(lane, id, cf, priority) ==
  [lane |-> lane, id |-> id, cf |-> cf, priority |-> priority,
   state |-> "waiting", attemptsMade |-> 0, rows |-> 0, row |-> NoRow,
   age |-> 0]

\* Queue.add with a custom jobId: BullMQ ignores the call when a job with
\* that id is stored in the queue, in whatever state; a job in state
\* "removed" is the trace of a job that Redis no longer stores
JobIdNeverPresent(js, lane, id) == FALSE
JobIdPresentIfUnfinished(js, lane, id) ==
  \E i \in 1..Len(js) : /\ js[i].lane = lane /\ js[i].id = id
                        /\ js[i].state \in {"waiting", "active", "delayed"}
JobIdPresent(js, lane, id) ==
  \E i \in 1..Len(js) : js[i].lane = lane /\ js[i].id = id /\ js[i].state # "removed"

QueueAdd(js, lane, id, cf, priority) ==
  IF JobIdPresent(js, lane, id) THEN js
  ELSE Append(js, NewJob(lane, id, cf, priority))

ProdIdle == [pc |-> "idle", lane |-> "", id |-> <<>>, cf |-> None]

\* enqueueInitialScrape up to `await initialQueue.add` (lines 27-35)
enqueueInitialScrape(p, cf) ==
  /\ prod[p].pc = "idle"
  /\ enqueues < MaxEnqueues
  /\ enqueues' = enqueues + 1
  /\ prod' = [prod EXCEPT ![p] = [pc |-> "adding", lane |-> QUEUE_INITIAL,
                                  id |-> InitialJobId(cf, today), cf |-> cf]]
  /\ UNCHANGED <<jobs, rl, recentStarts, starts, ignoredAdds>>
  /\ UNCHANGED <<clockVars, schedVars, nonQueueVars>>

\* enqueuePriorityScrape up to `await priorityQueue.add` (lines 92-100)
enqueuePriorityScrape(p, cf) ==
  /\ prod[p].pc = "idle"
  /\ enqueues < MaxEnqueues
  /\ enqueues' = enqueues + 1
  /\ prod' = [prod EXCEPT ![p] = [pc |-> "adding", lane |-> QUEUE_PRIORITY,
                                  id |-> PriorityJobId(cf, now), cf |-> cf]]
  /\ UNCHANGED <<jobs, rl, recentStarts, starts, ignoredAdds>>
  /\ UNCHANGED <<clockVars, schedVars, nonQueueVars>>

\* the add of a producer is executed by Redis and the producer returns
producerAdded(p) ==
  /\ prod[p].pc = "adding"
  /\ jobs' = QueueAdd(jobs, prod[p].lane, prod[p].id, prod[p].cf, PRIORITY_CRITICAL)
  /\ ignoredAdds' = IF jobs' = jobs THEN ignoredAdds + 1 ELSE ignoredAdds
  /\ prod' = [prod EXCEPT ![p] = ProdIdle]
  /\ UNCHANGED <<rl, recentStarts, enqueues, starts>>
  /\ UNCHANGED <<clockVars, schedVars, nonQueueVars>>

\* worker.config.ts: concurrency of the Worker of each queue
Max2(a, b) == IF a >= b THEN a ELSE b
Concurrency(lane) ==
  CASE lane = QUEUE_INITIAL -> Max2(1, workerConcurrency \div 2)
    [] lane = QUEUE_MONITOR -> workerConcurrency
    [] lane = QUEUE_PRIORITY -> Max2(1, workerConcurrency \div 3)

\* worker.config.ts: the Worker options that carry a limiter
HasLimiter(lane) == lane = QUEUE_MONITOR

JobIdx == 1..Len(jobs)
ActiveCount(lane) == Cardinality({j \in JobIdx : jobs[j].lane = lane /\ jobs[j].state = "active"})
WaitingIdx(lane) == {j \in JobIdx : jobs[j].lane = lane /\ jobs[j].state = "waiting"}

\* BullMQ takes the waiting job with the lowest priority number, oldest first
NextWaiting(lane) ==
  CHOOSE j \in WaitingIdx(lane) :
    \A k \in WaitingIdx(lane) :
      \/ jobs[j].priority < jobs[k].priority
      \/ jobs[j].priority = jobs[k].priority /\ j <= k

\* the rate-limit counter of a queue as seen at time `now` (the key expires)
RlCount(lane) == IF now >= rl[lane].expiresAt THEN 0 ELSE rl[lane].count

\* may the Worker of this queue start a job now
LimiterAllows(lane) == HasLimiter(lane) => RlCount(lane) < rateLimitMax

\* a Worker moves the next job of its queue to active and calls the
\* processor; processScrapeJob lines 69-75 write the STARTED row
startJob(lane) ==
  /\ WaitingIdx(lane) # {}
  /\ starts < MaxStarts
  /\ ActiveCount(lane) < Concurrency(lane)
  /\ LimiterAllows(lane)
  /\ LET j == NextWaiting(lane) IN
     jobs' = [jobs EXCEPT ![j].state = "active",
                          ![j].rows = @ + 1,
                          ![j].row = [attempt |-> jobs[j].attemptsMade + 1,
                                      status |-> "STARTED", code |-> ""]]
  /\ rl' = IF HasLimiter(lane)
           THEN [rl EXCEPT ![lane] =
                   [count |-> RlCount(lane) + 1,
                    expiresAt |-> IF RlCount(lane) = 0 THEN now + rateLimitDuration
                                  ELSE rl[lane].expiresAt]]
           ELSE rl
  /\ recentStarts' = Append(recentStarts, now)
  /\ starts' = starts + 1
  /\ UNCHANGED <<enqueues, ignoredAdds, prod>>
  /\ UNCHANGED <<clockVars, schedVars, nonQueueVars>>

\* removeOnComplete: { count }: job j of the queue completed; it becomes the
\* newest completed job (age 1), the others grow one older, and those
\* beyond the count are removed from the queue
TrimCompleted(js, j) ==
  [i \in 1..Len(js) |->
     IF i = j THEN [js[i] EXCEPT !.state = "completed", !.age = 1]
     ELSE IF js[i].lane = js[j].lane /\ js[i].state = "completed"
     THEN IF js[i].age + 1 > KeepCompleted
          THEN [js[i] EXCEPT !.state = "removed", !.age = 0]
          ELSE [js[i] EXCEPT !.age = @ + 1]
     ELSE js[i]]

\* processScrapeJob returned (lines 247-284): the row becomes COMPLETED and
\* BullMQ moves the job to completed
attemptReturns(j) ==
  /\ j \in JobIdx
  /\ jobs[j].state = "active"
  /\ jobs' = TrimCompleted([jobs EXCEPT ![j].attemptsMade = @ + 1,
                                        ![j].row.status = "COMPLETED"], j)
  /\ UNCHANGED <<rl, recentStarts, enqueues, starts, ignoredAdds, prod>>
  /\ UNCHANGED <<clockVars, schedVars, nonQueueVars>>

\* processScrapeJob line 290
WillRetry(kind, attemptsMade) == RetryableField(kind) # "false" /\ attemptsMade < 2

\* processScrapeJob line 308 rethrows the caught error itself; BullMQ gives
\* up early only on its own UnrecoverableError class, which the repository
\* never constructs
IsUnrecoverable(kind) == FALSE

\* a retry test that is off by one: a retry is still granted after the
\* last allowed attempt
BullRetriesOnceMore(kind, attemptsMadeAfter) ==
  attemptsMadeAfter <= MAX_ATTEMPTS /\ ~IsUnrecoverable(kind)

\* BullMQ, on a processor that threw: retry while attempts remain
BullRetries(kind, attemptsMadeAfter) ==
  attemptsMadeAfter < MAX_ATTEMPTS /\ ~IsUnrecoverable(kind)

\* processScrapeJob threw (catch block, lines 285-308): the row gets its
\* final status, then BullMQ applies the retry policy of baseQueueOptions
attemptThrows(j, kind) ==
  /\ j \in JobIdx
  /\ jobs[j].state = "active"
  /\ LET made == jobs[j].attemptsMade + 1
         status == IF WillRetry(kind, jobs[j].attemptsMade) THEN "RETRYING" ELSE "FAILED" IN
     jobs' = [jobs EXCEPT ![j].attemptsMade = made,
                          ![j].row.status = status,
                          ![j].row.code = kind,
                          ![j].state = IF BullRetries(kind, made) THEN "delayed" ELSE "failed"]
  /\ UNCHANGED <<rl, recentStarts, enqueues, starts, ignoredAdds, prod>>
  /\ UNCHANGED <<clockVars, schedVars, nonQueueVars>>

\* the backoff delay of a delayed job elapsed (the length of the delay is
\* not modelled: the job becomes ready at any later moment)
promoteDelayed(j) ==
  /\ j \in JobIdx
  /\ jobs[j].state = "delayed"
  /\ jobs' = [jobs EXCEPT ![j].state = "waiting"]
  /\ UNCHANGED <<rl, recentStarts, enqueues, starts, ignoredAdds, prod>>
  /\ UNCHANGED <<clockVars, schedVars, nonQueueVars>>

----------------------------------------------------------------------------
(* Scheduler: scheduler/scheduler.service.ts, scheduler/batch-enqueuer.ts  *)

\* priorities planNextBatch gives the batches of the model
PlanPriorities == {PRIORITY_HIGH, PRIORITY_LOW}

\* the caseFiles of a PlannedBatch, in the order of the query
BatchCaseFiles == {sq \in UNION {[1..n -> CaseFiles] : n \in 1..NumCaseFiles} :
                     \A a, b \in 1..Len(sq) : a < b => sq[a] < sq[b]}

PlannedBatch == [caseFiles : BatchCaseFiles, priority : PlanPriorities]

\* what planNextBatch may resolve with
PlanResults == UNION {[1..n -> PlannedBatch] : n \in 0..MaxBatches}

TickIdle == [pc |-> "idle", batches |-> <<>>, dateStr |-> 0, i |-> 0,
             planned |-> FALSE, added |-> 0]

\* cron callback line 31: the reentrancy guard
GuardOff == FALSE
GuardSkips == isRunning

\* the cron expression fires and the callback runs up to its first await
\* (lines 30-43)
cronFire(s) ==
  /\ tick[s].pc = "idle"
  /\ tickFires < MaxTickFires
  /\ tickFires' = tickFires + 1
  /\ IF GuardSkips
     THEN /\ tick' = [tick EXCEPT ![s].pc = "skipped"]
          /\ UNCHANGED isRunning
     ELSE /\ isRunning' = TRUE
          /\ tick' = [tick EXCEPT ![s].pc = "planning", ![s].planned = TRUE]
  /\ UNCHANGED <<clockVars, queueVars, nonQueueVars>>

\* planNextBatch resolved (lines 43-51); with batches, enqueueBatches calls
\* enqueueMonitorBatch for the first one, which formats today's date and
\* issues its first add
planResolved(s, bs) ==
  /\ tick[s].pc = "planning"
  /\ IF Len(bs) = 0
     THEN /\ isRunning' = FALSE
          /\ tick' = [tick EXCEPT ![s].pc = "done"]
     ELSE /\ tick' = [tick EXCEPT ![s].pc = "enqueueing", ![s].batches = bs,
                                  ![s].dateStr = today, ![s].i = 1]
          /\ UNCHANGED isRunning
  /\ UNCHANGED tickFires
  /\ UNCHANGED <<clockVars, queueVars, nonQueueVars>>

\* planNextBatch rejected: catch (line 61) and finally (line 67)
planRejected(s) ==
  /\ tick[s].pc = "planning"
  /\ isRunning' = FALSE
  /\ tick' = [tick EXCEPT ![s].pc = "done"]
  /\ UNCHANGED tickFires
  /\ UNCHANGED <<clockVars, queueVars, nonQueueVars>>

\* enqueueMonitorBatch lines 61-78: one monitorQueue.add resolved; the loop
\* goes on with the next case file, the next batch, or the tick ends
monitorAdded(s) ==
  /\ tick[s].pc = "enqueueing"
  /\ LET b == Head(tick[s].batches)
         cf == b.caseFiles[tick[s].i] IN
     /\ jobs' = QueueAdd(jobs, QUEUE_MONITOR, MonitorJobId(cf, tick[s].dateStr), cf, b.priority)
     /\ ignoredAdds' = IF jobs' = jobs THEN ignoredAdds + 1 ELSE ignoredAdds
     /\ IF tick[s].i < Len(b.caseFiles)
        THEN /\ tick' = [tick EXCEPT ![s].i = @ + 1, ![s].added = @ + 1]
             /\ UNCHANGED isRunning
        ELSE IF Len(tick[s].batches) > 1
        THEN /\ tick' = [tick EXCEPT ![s].batches = Tail(@), ![s].i = 1,
                                     ![s].dateStr = today, ![s].added = @ + 1]
             /\ UNCHANGED isRunning
        ELSE /\ tick' = [tick EXCEPT ![s].pc = "done", ![s].batches = <<>>,
                                     ![s].i = 0, ![s].added = @ + 1]
             /\ isRunning' = FALSE
  /\ UNCHANGED <<rl, recentStarts, enqueues, starts, prod, tickFires>>
  /\ UNCHANGED <<clockVars, nonQueueVars>>

\* a monitorQueue.add rejected: catch (line 61) and finally (line 67)
monitorAddRejected(s) ==
  /\ tick[s].pc = "enqueueing"
  /\ isRunning' = FALSE
  /\ tick' = [tick EXCEPT ![s].pc = "done", ![s].batches = <<>>, ![s].i = 0]
  /\ UNCHANGED tickFires
  /\ UNCHANGED <<clockVars, queueVars, nonQueueVars>>

\* the callback's promise is settled; the slot can carry a later firing
tickReturn(s) ==
  /\ tick[s].pc \in {"done", "skipped"}
  /\ tick' = [tick EXCEPT ![s] = TickIdle]
  /\ UNCHANGED <<isRunning, tickFires>>
  /\ UNCHANGED <<clockVars, queueVars, nonQueueVars>>

----------------------------------------------------------------------------
(* Change detection: processing/change-detector.ts, shared/utils/hash.ts,  *)
(* shared/utils/diff.ts                                                    *)

\* A normalized binnacle is [index, key, acto]: key stands for the triple
\* (resolutionDate, entryDate, resolution) of buildEntryKey and acto for the
\* compared fields.
ContentA == <<[index |-> 1, key |-> "k1", acto |-> "x"]>>
ContentB == <<[index |-> 1, key |-> "k1", acto |-> "y"]>>
Contents == {ContentA, ContentB}

\* [...data].sort((a, b) => a.index - b.index), as an insertion sort
RECURSIVE InsertByIndex(_, _)
InsertByIndex(e, sq) ==
  IF sq = <<>> THEN <<e>>
  ELSE IF e.index < Head(sq).index THEN <<e>> \o sq
  ELSE <<Head(sq)>> \o InsertByIndex(e, Tail(sq))

RECURSIVE SortByIndex(_)
SortByIndex(sq) ==
  IF sq = <<>> THEN <<>>
  ELSE InsertByIndex(Head(sq), SortByIndex(Tail(sq)))

\* computeHash: SHA-256 of the serialisation of the sorted entries; the
\* digest is taken to be collision free, so the serialised value stands for it
computeHash(data) == <<"sha256", SortByIndex(data)>>

NoHash == <<>>

\* oldMap.get(key): the last old entry with that key
OldEntry(oldData, k) ==
  LET idx == {i \in 1..Len(oldData) : oldData[i].key = k} IN
  IF idx = {} THEN None ELSE CHOOSE i \in idx : \A m \in idx : m <= i

\* compareFields, for the one compared field of the model
compareFields(oldE, newE) ==
  IF oldE.acto # newE.acto
  THEN <<[changeType |-> "MODIFIED_BINNACLE", fieldName |-> "acto"]>>
  ELSE <<>>

RECURSIVE DiffNew(_, _)
DiffNew(oldData, newData) ==
  IF newData = <<>> THEN <<>>
  ELSE LET e == Head(newData)
           o == OldEntry(oldData, e.key) IN
       (IF o = None THEN <<[changeType |-> "NEW_BINNACLE", fieldName |-> ""]>>
        ELSE compareFields(oldData[o], e))
       \o DiffNew(oldData, Tail(newData))

RECURSIVE DiffRemoved(_, _, _)
DiffRemoved(oldData, newData, i) ==
  IF i > Len(oldData) THEN <<>>
  ELSE (IF /\ OldEntry(oldData, oldData[i].key) = i
           /\ \A n \in 1..Len(newData) : newData[n].key # oldData[i].key
        THEN <<[changeType |-> "REMOVED_BINNACLE", fieldName |-> ""]>>
        ELSE <<>>)
       \o DiffRemoved(oldData, newData, i + 1)

\* computeStructuredDiff (diff.ts lines 139-189)
computeStructuredDiff(oldData, newData) ==
  DiffNew(oldData, newData) \o DiffRemoved(oldData, newData, 1)

NoDet == [isFirstScrape |-> FALSE, hasChanges |-> FALSE, changes |-> <<>>,
          newHash |-> NoHash]

\* detectChanges (change-detector.ts lines 32-85); previousSnapshot is <<>>
\* when there is none
detectChangesIgnoringPrevious(newBinnacles, previousSnapshot, previousHash) ==
  LET changes == computeStructuredDiff(<<>>, newBinnacles) IN
  [isFirstScrape |-> Len(previousSnapshot) = 0, hasChanges |-> TRUE,
   changes |-> IF Len(previousSnapshot) = 0 THEN <<>> ELSE changes,
   newHash |-> computeHash(newBinnacles)]

detectChangesWithoutFirstScrape(newBinnacles, previousSnapshot, previousHash) ==
  LET newHash == computeHash(newBinnacles) IN
  IF newHash = previousHash
  THEN [isFirstScrape |-> FALSE, hasChanges |-> FALSE, changes |-> <<>>,
        newHash |-> newHash]
  ELSE LET changes == computeStructuredDiff(previousSnapshot, newBinnacles) IN
       [isFirstScrape |-> FALSE, hasChanges |-> Len(changes) > 0,
        changes |-> changes, newHash |-> newHash]

detectChanges(newBinnacles, previousSnapshot, previousHash) ==
  LET newHash == computeHash(newBinnacles) IN
  IF Len(previousSnapshot) = 0
  THEN [isFirstScrape |-> TRUE, hasChanges |-> TRUE, changes |-> <<>>,
        newHash |-> newHash]
  ELSE IF newHash = previousHash
  THEN [isFirstScrape |-> FALSE, hasChanges |-> FALSE, changes |-> <<>>,
        newHash |-> newHash]
  ELSE LET changes == computeStructuredDiff(previousSnapshot, newBinnacles) IN
       [isFirstScrape |-> FALSE, hasChanges |-> Len(changes) > 0,
        changes |-> changes, newHash |-> newHash]

----------------------------------------------------------------------------
(* Snapshot repository: persistence/repositories/snapshot.repository.ts    *)

\* findLatestByCaseFileId: the newest row of the case file, 0 if none
findLatestByCaseFileId(cf) ==
  LET idx == {i \in 1..Len(snapshots) : snapshots[i].caseFileId = cf} IN
  IF idx = {} THEN 0 ELSE CHOOSE i \in idx : \A m \in idx : m <= i

\* the model's unique index on SCRAPE_SNAPSHOT.case_file_id
\* (db/models/index.ts line 47): may a row for cf be inserted
NoUniqueIndex(cf) == TRUE
UniqueAllowsInsert(cf) == \A i \in 1..Len(snapshots) : snapshots[i].caseFileId # cf

\* the Sequelize instance returned by a find: the values read, and the row
NoInstance == [idx |-> 0, scrapeCount |-> 0, errorCount |-> 0, lastChangedAt |-> None]
InstanceOf(i) ==
  IF i = 0 THEN NoInstance
  ELSE [idx |-> i, scrapeCount |-> snapshots[i].scrapeCount,
        errorCount |-> snapshots[i].errorCount,
        lastChangedAt |-> snapshots[i].lastChangedAt]

\* upsert, lines 43-55: the values written to an existing row;
\* consecutiveNoChange is data.consecutiveNoChange ?? 0
UpsertUpdate(row, existing, data) ==
  [row EXCEPT !.contentHash = data.contentHash,
              !.rawData = data.rawData,
              !.lastChangedAt = IF data.lastChangedAt # None THEN data.lastChangedAt
                                ELSE existing.lastChangedAt,
              !.scrapeCount = existing.scrapeCount + 1,
              !.consecutiveNoChange = IF data.consecutiveNoChange # None
                                      THEN data.consecutiveNoChange ELSE 0,
              !.errorCount = 0,
              !.lastError = None,
              !.writer = data.writer,
              !.owed = data.owed]

\* upsert, lines 58-69: the row created when none exists
UpsertCreate(data) ==
  [caseFileId |-> data.caseFileId, contentHash |-> data.contentHash,
   rawData |-> data.rawData, lastChangedAt |-> data.lastChangedAt,
   scrapeCount |-> 1,
   consecutiveNoChange |-> IF data.consecutiveNoChange # None
                           THEN data.consecutiveNoChange ELSE 0,
   errorCount |-> 0, lastError |-> None,
   writer |-> data.writer, owed |-> data.owed]

----------------------------------------------------------------------------
(* The scrape worker: processScrapeJob (workers/scrape.worker.ts) with     *)
(* PageContext (scraping/browser/page-context.ts).  One action is the code *)
(* of one attempt between two awaits; wk[w].pc names the call the attempt  *)
(* makes next.                                                             *)

Undefined == -1

WkIdle == [pc |-> "idle", cf |-> None, stamp |-> 0,
           page |-> FALSE, scraped |-> <<>>, det |-> NoDet,
           existing |-> NoInstance, err |-> "", row |-> "",
           acquired |-> FALSE, releases |-> 0, ok |-> FALSE]

\* job.attemptsMade as BullMQ passes it to the processor
AttemptsMadeValues == 0..(MAX_ATTEMPTS - 1)

\* control passes to the catch block (line 285) with the error
Throw(w, kind) == wk' = [wk EXCEPT ![w].pc = "logFailure", ![w].err = kind]

\* lines 69-87: logStart writes the STARTED row, then pageContext.open()
\* calls browserPool.acquire()
\* BullMQ hands a job to any free processor slot: the lowest one here
wkStart(w, cf) ==
  /\ wk[w].pc = "idle"
  /\ \A v \in Workers : v < w => wk[v].pc # "idle"
  /\ attempts < MaxAttemptsTotal
  /\ acquire(w)
  /\ acquireCalls' = acquireCalls + 1
  /\ attempts' = attempts + 1
  /\ wk' = [wk EXCEPT ![w] = [WkIdle EXCEPT !.pc = "open", !.cf = cf,
                                            !.stamp = attempts + 1,
                                            !.row = "STARTED"]]
  /\ UNCHANGED <<held, drainSt, drainCalls, faults, successes, noChangeRun>>
  /\ UNCHANGED <<dbVars, nonWorkerVars>>

\* PageContext.open line 35: this.browser = await acquire(); then newPage()
wkGotBrowser(w) ==
  /\ wk[w].pc = "open"
  /\ acq[w].st = "resolved"
  /\ held' = [held EXCEPT ![w] = acq[w].res]
  /\ acq' = [acq EXCEPT ![w] = AcqNone]
  /\ wk' = [wk EXCEPT ![w].pc = "newPage", ![w].acquired = TRUE]
  /\ UNCHANGED <<pooled, pool, waitQueue, nextBrowser, closed, acquireCalls,
                 drainSt, drainCalls>>
  /\ UNCHANGED <<attempts, faults, successes, noChangeRun>>
  /\ UNCHANGED <<dbVars, nonWorkerVars>>

\* acquire() rejected (a browser launch failed): open() throws
wkOpenRejected(w) ==
  /\ wk[w].pc = "open"
  /\ acq[w].st = "rejected"
  /\ acq' = [acq EXCEPT ![w] = AcqNone]
  /\ Throw(w, "UNKNOWN")
  /\ UNCHANGED <<pooled, pool, waitQueue, nextBrowser, closed, held,
                 acquireCalls, drainSt, drainCalls>>
  /\ UNCHANGED <<attempts, faults, successes, noChangeRun>>
  /\ UNCHANGED <<dbVars, nonWorkerVars>>

\* launchBrowser() rejects inside acquire() or recycle()
wkLaunchFailed(w) ==
  /\ faults < MaxFaults
  /\ faults' = faults + 1
  /\ acquireLaunchFailed(w) \/ recycleLaunchFailed(w)
  /\ UNCHANGED <<held, acquireCalls, drainSt, drainCalls>>
  /\ UNCHANGED <<wk, attempts, successes, noChangeRun>>
  /\ UNCHANGED <<dbVars, nonWorkerVars>>

\* PageContext.open lines 36-66: the page is created and set up
wkPageOpened(w) ==
  /\ wk[w].pc = "newPage"
  /\ wk' = [wk EXCEPT ![w].pc = "scrape", ![w].page = TRUE]
  /\ UNCHANGED <<attempts, faults, successes, noChangeRun>>
  /\ UNCHANGED <<poolVars, dbVars, nonWorkerVars>>

\* the calls of the try block that may reject without having had an effect
ThrowPcs == {"newPage", "detect", "upsertFind", "upsertWrite", "incr",
             "changelog", "mark", "logComplete"}

\* the awaited call the attempt is at rejects: control passes to catch
wkStepThrows(w) ==
  /\ wk[w].pc \in ThrowPcs
  /\ faults < MaxFaults
  /\ faults' = faults + 1
  /\ Throw(w, "UNKNOWN")
  /\ UNCHANGED <<attempts, successes, noChangeRun>>
  /\ UNCHANGED <<poolVars, dbVars, nonWorkerVars>>

\* lines 104-122: form submission, extraction and validation succeed; the
\* attempt now holds the binnacles the Portal shows
wkScraped(w) ==
  /\ wk[w].pc = "scrape"
  /\ wk' = [wk EXCEPT ![w].pc = "detect", ![w].scraped = portal[wk[w].cf]]
  /\ UNCHANGED <<attempts, faults, successes, noChangeRun>>
  /\ UNCHANGED <<poolVars, dbVars, nonWorkerVars>>

\* lines 104-122: the scrape throws a ScrapeError of the given kind
wkScrapeFailed(w, kind) ==
  /\ wk[w].pc = "scrape"
  /\ faults < MaxFaults
  /\ faults' = faults + 1
  /\ Throw(w, kind)
  /\ UNCHANGED <<attempts, successes, noChangeRun>>
  /\ UNCHANGED <<poolVars, dbVars, nonWorkerVars>>

\* lines 125-133: read the previous snapshot and detect changes.  The
\* binnacle, notification and file writes of lines 135-208 touch tables
\* this model does not hold.
wkDetect(w) ==
  /\ wk[w].pc = "detect"
  /\ LET i == findLatestByCaseFileId(wk[w].cf)
         previousHash == IF i = 0 THEN NoHash ELSE snapshots[i].contentHash
         previousData == IF i = 0 THEN <<>> ELSE snapshots[i].rawData IN
     wk' = [wk EXCEPT ![w].pc = "upsertFind",
                      ![w].det = detectChanges(wk[w].scraped, previousData,
                                               previousHash)]
  /\ UNCHANGED <<attempts, faults, successes, noChangeRun>>
  /\ UNCHANGED <<poolVars, dbVars, nonWorkerVars>>

\* snapshotRepo.upsert line 41: const existing = await findOne(...)
wkUpsertFind(w) ==
  /\ wk[w].pc = "upsertFind"
  /\ wk' = [wk EXCEPT ![w].pc = "upsertWrite",
                      ![w].existing = InstanceOf(findLatestByCaseFileId(wk[w].cf))]
  /\ UNCHANGED <<attempts, faults, successes, noChangeRun>>
  /\ UNCHANGED <<poolVars, dbVars, nonWorkerVars>>

\* the argument of snapshotRepo.upsert, lines 212-220; writer and owed
\* record which attempt wrote the row and whether its diff is still to be
\* inserted (history)
UpsertData(w) ==
  [caseFileId |-> wk[w].cf, contentHash |-> wk[w].det.newHash,
   rawData |-> wk[w].scraped,
   lastChangedAt |-> IF wk[w].det.hasChanges THEN wk[w].stamp ELSE None,
   consecutiveNoChange |-> IF wk[w].det.hasChanges THEN 0 ELSE Undefined,
   writer |-> wk[w].stamp,
   owed |-> wk[w].det.hasChanges /\ ~wk[w].det.isFirstScrape]

\* lines 222-239: what follows the upsert
AfterUpsertAlwaysLogs(det) == "changelog"
AfterUpsert(det) ==
  IF ~det.hasChanges /\ ~det.isFirstScrape THEN "incr"
  ELSE IF det.hasChanges /\ ~det.isFirstScrape THEN "changelog"
  ELSE "mark"

\* snapshotRepo.upsert lines 43-69: existing.update(...) or create(...);
\* the create is rejected by the unique index when a row is there
wkUpsertWrite(w) ==
  /\ wk[w].pc = "upsertWrite"
  /\ LET e == wk[w].existing IN
     IF e.idx # 0 THEN
       /\ snapshots' = [snapshots EXCEPT ![e.idx] =
                          UpsertUpdate(snapshots[e.idx], e, UpsertData(w))]
       /\ wk' = [wk EXCEPT ![w].pc = AfterUpsert(wk[w].det)]
     ELSE IF UniqueAllowsInsert(wk[w].cf) THEN
       /\ snapshots' = Append(snapshots, UpsertCreate(UpsertData(w)))
       /\ wk' = [wk EXCEPT ![w].pc = AfterUpsert(wk[w].det)]
     ELSE
       /\ Throw(w, "UNKNOWN")
       /\ UNCHANGED snapshots
  /\ UNCHANGED <<portal, changelog, caseFile>>
  /\ UNCHANGED <<attempts, faults, successes, noChangeRun>>
  /\ UNCHANGED <<poolVars, nonWorkerVars>>

\* snapshotRepo.incrementNoChange (lines 75-80)
wkIncrementNoChange(w) ==
  /\ wk[w].pc = "incr"
  /\ LET i == findLatestByCaseFileId(wk[w].cf) IN
     IF i = 0 THEN UNCHANGED snapshots
     ELSE snapshots' = [snapshots EXCEPT ![i].consecutiveNoChange = @ + 1]
  /\ wk' = [wk EXCEPT ![w].pc = "mark"]
  /\ UNCHANGED <<portal, changelog, caseFile>>
  /\ UNCHANGED <<attempts, faults, successes, noChangeRun>>
  /\ UNCHANGED <<poolVars, nonWorkerVars>>

\* lines 227-239: one SCRAPE_CHANGE_LOG row per detected change
ChangeRecords(w) ==
  [i \in 1..Len(wk[w].det.changes) |->
     [caseFileId |-> wk[w].cf,
      changeType |-> wk[w].det.changes[i].changeType,
      fieldName |-> wk[w].det.changes[i].fieldName,
      detectedAt |-> wk[w].stamp]]

wkChangelog(w) ==
  /\ wk[w].pc = "changelog"
  /\ changelog' = changelog \o ChangeRecords(w)
  /\ snapshots' = [i \in 1..Len(snapshots) |->
                     IF snapshots[i].writer = wk[w].stamp
                     THEN [snapshots[i] EXCEPT !.owed = FALSE]
                     ELSE snapshots[i]]
  /\ wk' = [wk EXCEPT ![w].pc = "mark"]
  /\ UNCHANGED <<portal, caseFile>>
  /\ UNCHANGED <<attempts, faults, successes, noChangeRun>>
  /\ UNCHANGED <<poolVars, nonWorkerVars>>

\* casefileRepo.markScraped (casefile.repository.ts lines 78-90)
wkMarkScraped(w) ==
  /\ wk[w].pc = "mark"
  /\ caseFile' = [caseFile EXCEPT ![wk[w].cf].wasScanned = TRUE,
                                  ![wk[w].cf].hasPendingChanges = wk[w].det.hasChanges]
  /\ wk' = [wk EXCEPT ![w].pc = "logComplete"]
  /\ UNCHANGED <<portal, snapshots, changelog>>
  /\ UNCHANGED <<attempts, faults, successes, noChangeRun>>
  /\ UNCHANGED <<poolVars, nonWorkerVars>>

\* lines 247-283: logComplete, then the function returns through finally
wkLogComplete(w) ==
  /\ wk[w].pc = "logComplete"
  /\ wk' = [wk EXCEPT ![w].pc = "close", ![w].row = "COMPLETED", ![w].ok = TRUE]
  /\ UNCHANGED <<attempts, faults, successes, noChangeRun>>
  /\ UNCHANGED <<poolVars, dbVars, nonWorkerVars>>

\* catch, lines 285-296: logFailure with the computed willRetry; am is the
\* job's attemptsMade, which only this line reads
wkLogFailure(w, am) ==
  /\ wk[w].pc = "logFailure"
  /\ wk' = [wk EXCEPT ![w].pc = "recordFind",
                      ![w].row = IF WillRetry(wk[w].err, am)
                                 THEN "RETRYING" ELSE "FAILED"]
  /\ UNCHANGED <<attempts, faults, successes, noChangeRun>>
  /\ UNCHANGED <<poolVars, dbVars, nonWorkerVars>>

\* an awaited call of the catch block rejects: the new error leaves the
\* function through finally
wkCatchThrows(w) ==
  /\ wk[w].pc \in {"logFailure", "recordFind", "recordWrite"}
  /\ faults < MaxFaults
  /\ faults' = faults + 1
  /\ wk' = [wk EXCEPT ![w].pc = "close", ![w].err = "UNKNOWN"]
  /\ UNCHANGED <<attempts, successes, noChangeRun>>
  /\ UNCHANGED <<poolVars, dbVars, nonWorkerVars>>

\* snapshotRepo.recordError line 89: the find
wkRecordFind(w) ==
  /\ wk[w].pc = "recordFind"
  /\ LET i == findLatestByCaseFileId(wk[w].cf) IN
     wk' = [wk EXCEPT ![w].pc = IF i = 0 THEN "close" ELSE "recordWrite",
                      ![w].existing = InstanceOf(i)]
  /\ UNCHANGED <<attempts, faults, successes, noChangeRun>>
  /\ UNCHANGED <<poolVars, dbVars, nonWorkerVars>>

\* snapshotRepo.recordError lines 91-94: the update, then `throw error`
wkRecordWrite(w) ==
  /\ wk[w].pc = "recordWrite"
  /\ LET e == wk[w].existing IN
     snapshots' = [snapshots EXCEPT ![e.idx].lastError = wk[w].err,
                                    ![e.idx].errorCount = e.errorCount + 1]
  /\ wk' = [wk EXCEPT ![w].pc = "close"]
  /\ UNCHANGED <<portal, changelog, caseFile>>
  /\ UNCHANGED <<attempts, faults, successes, noChangeRun>>
  /\ UNCHANGED <<poolVars, nonWorkerVars>>

\* PageContext.close line 83: if (this.browser)
CloseReleasesOnSuccess(w) == held[w] # None /\ wk[w].ok
CloseReleases(w) == held[w] # None

\* finally, line 310: pageContext.close() (page-context.ts lines 73-87); a
\* failing page.close() is swallowed
wkClose(w) ==
  /\ wk[w].pc = "close"
  /\ IF CloseReleases(w)
     THEN /\ release(held[w])
          /\ held' = [held EXCEPT ![w] = None]
          /\ wk' = [wk EXCEPT ![w].pc = "finished", ![w].page = FALSE,
                              ![w].releases = @ + 1]
     ELSE /\ wk' = [wk EXCEPT ![w].pc = "finished", ![w].page = FALSE]
          /\ UNCHANGED <<pooled, pool, waitQueue, acq, held>>
  /\ UNCHANGED <<nextBrowser, closed, acquireCalls, drainSt, drainCalls>>
  /\ UNCHANGED <<attempts, faults, successes, noChangeRun>>
  /\ UNCHANGED <<dbVars, nonWorkerVars>>

\* the attempt's promise settles and BullMQ frees the processor slot
wkReturn(w) ==
  /\ wk[w].pc = "finished"
  /\ LET cf == wk[w].cf IN
     IF wk[w].ok
     THEN /\ successes' = [successes EXCEPT ![cf] = @ + 1]
          /\ noChangeRun' = [noChangeRun EXCEPT ![cf] =
                               IF wk[w].det.hasChanges THEN 0 ELSE @ + 1]
     ELSE UNCHANGED <<successes, noChangeRun>>
  /\ wk' = [wk EXCEPT ![w] = WkIdle]
  /\ UNCHANGED <<attempts, faults>>
  /\ UNCHANGED <<poolVars, dbVars, nonWorkerVars>>

\* the court publishes something else for the case file
portalChanges(cf, c) ==
  /\ c # portal[cf]
  /\ portal' = [portal EXCEPT ![cf] = c]
  /\ UNCHANGED <<snapshots, changelog, caseFile>>
  /\ UNCHANGED <<poolVars, workerVars, nonWorkerVars>>

\* an empty store and idle processors
StoreInit ==
  /\ portal = [cf \in CaseFiles |-> ContentA]
  /\ snapshots = <<>>
  /\ changelog = <<>>
  /\ caseFile = [cf \in CaseFiles |-> [wasScanned |-> FALSE,
                                       hasPendingChanges |-> FALSE,
                                       isScanValid |-> TRUE]]
  /\ wk = [w \in Workers |-> WkIdle]
  /\ attempts = 0
  /\ faults = 0
  /\ successes = [cf \in CaseFiles |-> 0]
  /\ noChangeRun = [cf \in CaseFiles |-> 0]

----------------------------------------------------------------------------
(* Specifications of the scheduler and of the queues *)

QueueInit ==
  /\ now = 0
  /\ today = 1
  /\ jobs = <<>>
  /\ rl = [l \in Lanes |-> [count |-> 0, expiresAt |-> 0]]
  /\ recentStarts = <<>>
  /\ enqueues = 0
  /\ starts = 0
  /\ ignoredAdds = 0
  /\ prod = [p \in Producers |-> ProdIdle]
  /\ isRunning = FALSE
  /\ tick = [s \in TickSlots |-> TickIdle]
  /\ tickFires = 0

InitQueue == PoolInit /\ PureIdle /\ StopIdle /\ QueueInit /\ StoreInit

NextSched ==
  \/ \E s \in TickSlots : cronFire(s)
  \/ \E s \in TickSlots : \E bs \in PlanResults : planResolved(s, bs)
  \/ \E s \in TickSlots : planRejected(s)
  \/ \E s \in TickSlots : monitorAdded(s)
  \/ \E s \in TickSlots : monitorAddRejected(s)
  \/ \E s \in TickSlots : tickReturn(s)
  \/ dayRollover

SpecSched == InitQueue /\ [][NextSched]_vars

\* SpecQueue starts with the backlog an earlier scheduler tick may have left
\* in the monitor queue (the scheduler itself is the subject of SpecSched)
Backlogs == {<<>>} \cup
            {<<NewJob(QUEUE_MONITOR, MonitorJobId(cf, 1), cf, pr)>> :
               cf \in CaseFiles, pr \in PlanPriorities}

InitQueueRun ==
  /\ PoolInit
  /\ PureIdle
  /\ StopIdle
  /\ StoreInit
  /\ now = 0
  /\ today = 1
  /\ jobs \in Backlogs
  /\ rl = [l \in Lanes |-> [count |-> 0, expiresAt |-> 0]]
  /\ recentStarts = <<>>
  /\ enqueues = 0
  /\ starts = 0
  /\ ignoredAdds = 0
  /\ prod = [p \in Producers |-> ProdIdle]
  /\ isRunning = FALSE
  /\ tick = [s \in TickSlots |-> TickIdle]
  /\ tickFires = 0

NextQueue ==
  \/ \E p \in Producers : \E cf \in CaseFiles : enqueueInitialScrape(p, cf)
  \/ \E p \in Producers : \E cf \in CaseFiles : enqueuePriorityScrape(p, cf)
  \/ \E p \in Producers : producerAdded(p)
  \/ \E l \in Lanes : startJob(l)
  \/ \E j \in 1..Len(jobs) : attemptReturns(j)
  \/ \E j \in 1..Len(jobs) : \E k \in ErrorKinds : attemptThrows(j, k)
  \/ \E j \in 1..Len(jobs) : promoteDelayed(j)
  \/ advanceTime
  \/ dayRollover

SpecQueue == InitQueueRun /\ [][NextQueue]_vars

\* SpecLimiter: callers of the cejRateLimiter singleton while time passes
NextLimiter ==
  \/ \E c \in 1..NumLimCallers : tryAcquire(c)
  \/ \E c \in 1..NumLimCallers : waitForToken(c)
  \/ \E c \in 1..NumLimCallers : timerFires(c)
  \/ advanceTime

SpecLimiter == InitQueue /\ [][NextLimiter]_vars

\* SpecRetry: one stored job, of the initial queue (no limiter) or of the
\* monitor queue, under the retry policy of baseQueueOptions, with no
\* producer at work
RetryBacklogs ==
  {<<NewJob(QUEUE_INITIAL, InitialJobId(cf, 1), cf, PRIORITY_CRITICAL)>> :
     cf \in CaseFiles}
  \cup (Backlogs \ {<<>>})

InitRetry ==
  /\ PoolInit
  /\ PureIdle
  /\ StopIdle
  /\ StoreInit
  /\ now = 0
  /\ today = 1
  /\ jobs \in RetryBacklogs
  /\ rl = [l \in Lanes |-> [count |-> 0, expiresAt |-> 0]]
  /\ recentStarts = <<>>
  /\ enqueues = 0
  /\ starts = 0
  /\ ignoredAdds = 0
  /\ prod = [p \in Producers |-> ProdIdle]
  /\ isRunning = FALSE
  /\ tick = [s \in TickSlots |-> TickIdle]
  /\ tickFires = 0

NextRetry ==
  \/ \E l \in Lanes : startJob(l)
  \/ \E j \in 1..Len(jobs) : attemptReturns(j)
  \/ \E j \in 1..Len(jobs) : \E k \in ErrorKinds : attemptThrows(j, k)
  \/ \E j \in 1..Len(jobs) : promoteDelayed(j)
  \/ advanceTime

SpecRetry == InitRetry /\ [][NextRetry]_vars

\* SpecInitial: the initial queue alone on a day when the first scrape of
\* several case files is requested (POST /jobs/initial); it starts after the
\* first request for case file 1 was added
InitialCaseFiles == 1..NumInitialCaseFiles

InitInitial ==
  /\ PoolInit
  /\ PureIdle
  /\ StopIdle
  /\ StoreInit
  /\ now = 0
  /\ today = 1
  /\ jobs = <<NewJob(QUEUE_INITIAL, InitialJobId(1, 1), 1, PRIORITY_CRITICAL)>>
  /\ rl = [l \in Lanes |-> [count |-> 0, expiresAt |-> 0]]
  /\ recentStarts = <<>>
  /\ enqueues = 0
  /\ starts = 0
  /\ ignoredAdds = 0
  /\ prod = [p \in Producers |-> ProdIdle]
  /\ isRunning = FALSE
  /\ tick = [s \in TickSlots |-> TickIdle]
  /\ tickFires = 0

NextInitial ==
  \/ \E p \in Producers : \E cf \in InitialCaseFiles : enqueueInitialScrape(p, cf)
  \/ \E p \in Producers : producerAdded(p)
  \/ \E l \in Lanes : startJob(l)
  \/ \E j \in 1..Len(jobs) : attemptReturns(j)
  \/ \E j \in 1..Len(jobs) : \E k \in ErrorKinds : attemptThrows(j, k)
  \/ \E j \in 1..Len(jobs) : promoteDelayed(j)
  \/ advanceTime
  \/ dayRollover

SpecInitial == InitInitial /\ [][NextInitial]_vars

InitPool == PoolInit /\ PureIdle /\ StopIdle /\ QueueInit /\ StoreInit

SpecPool == InitPool /\ [][NextPool]_vars

\* SpecPoolLive: every awaited promise of the pool settles in the end
\* (launches, closes, the resumption of a caller), and every caller that
\* holds a browser releases it in the end; whether and when acquire() and
\* drain() are called is left open
PoolFairness ==
  /\ \A t \in Tasks : /\ WF_vars(ClientLaunched(t))
                       /\ WF_vars(ClientRecycleClosed(t))
                       /\ WF_vars(ClientRecycleLaunched(t))
                       /\ WF_vars(ClientGot(t))
                       /\ WF_vars(ClientRejected(t))
                       /\ WF_vars(ClientRelease(t))
  /\ WF_vars(drainStep)
  /\ WF_vars(drainReturn)

SpecPoolLive == InitPool /\ [][NextPool]_vars /\ PoolFairness

\* the store a restarted process finds after one earlier first scrape of
\* content c (attempt 1): upsert created the row, markScraped set the flags
PriorScrape(cf, c) ==
  UpsertCreate([caseFileId |-> cf, contentHash |-> computeHash(c),
                rawData |-> c, lastChangedAt |-> 1, consecutiveNoChange |-> 0,
                writer |-> 1, owed |-> FALSE])

\* SpecWorker starts after one earlier attempt (attempt 1) that either
\* failed before it wrote anything or was a successful first scrape
InitWorker ==
  /\ PoolInit
  /\ PureIdle
  /\ StopIdle
  /\ QueueInit
  /\ portal \in [CaseFiles -> Contents]
  /\ changelog = <<>>
  /\ wk = [w \in Workers |-> WkIdle]
  /\ faults = 0
  /\ noChangeRun = [cf \in CaseFiles |-> 0]
  /\ \/ /\ snapshots = <<>>
        /\ caseFile = [cf \in CaseFiles |-> [wasScanned |-> FALSE,
                                             hasPendingChanges |-> FALSE,
                                             isScanValid |-> TRUE]]
        /\ attempts = 1
        /\ successes = [cf \in CaseFiles |-> 0]
     \/ /\ \E c \in Contents : snapshots = <<PriorScrape(1, c)>>
        /\ caseFile = [cf \in CaseFiles |->
                         [wasScanned |-> cf = 1, hasPendingChanges |-> cf = 1,
                          isScanValid |-> TRUE]]
        /\ attempts = 1
        /\ successes = [cf \in CaseFiles |-> IF cf = 1 THEN 1 ELSE 0]

NextWorker ==
  \/ \E w \in Workers : \E cf \in CaseFiles : wkStart(w, cf)
  \/ \E w \in Workers : ClientLaunched(w)
  \/ \E w \in Workers : wkLaunchFailed(w)
  \/ \E w \in Workers : ClientRecycleClosed(w)
  \/ \E w \in Workers : ClientRecycleLaunched(w)
  \/ \E w \in Workers : wkGotBrowser(w)
  \/ \E w \in Workers : wkOpenRejected(w)
  \/ \E w \in Workers : wkPageOpened(w)
  \/ \E w \in Workers : wkStepThrows(w)
  \/ \E w \in Workers : wkScraped(w)
  \/ \E w \in Workers : \E k \in ErrorKinds : wkScrapeFailed(w, k)
  \/ \E w \in Workers : wkDetect(w)
  \/ \E w \in Workers : wkUpsertFind(w)
  \/ \E w \in Workers : wkUpsertWrite(w)
  \/ \E w \in Workers : wkIncrementNoChange(w)
  \/ \E w \in Workers : wkChangelog(w)
  \/ \E w \in Workers : wkMarkScraped(w)
  \/ \E w \in Workers : wkLogComplete(w)
  \/ \E w \in Workers : \E am \in AttemptsMadeValues : wkLogFailure(w, am)
  \/ \E w \in Workers : wkCatchThrows(w)
  \/ \E w \in Workers : wkRecordFind(w)
  \/ \E w \in Workers : wkRecordWrite(w)
  \/ \E w \in Workers : wkClose(w)
  \/ \E w \in Workers : wkReturn(w)
  \/ \E cf \in CaseFiles : \E c \in Contents : portalChanges(cf, c)

SpecWorker == InitWorker /\ [][NextWorker]_vars

\* SpecFirstScrape: the worker on a case file that was never scraped, or
\* whose one earlier scrape found no binnacle and stored an empty rawData
InitFirstScrape ==
  /\ PoolInit
  /\ PureIdle
  /\ StopIdle
  /\ QueueInit
  /\ portal \in [CaseFiles -> Contents]
  /\ changelog = <<>>
  /\ wk = [w \in Workers |-> WkIdle]
  /\ faults = 0
  /\ noChangeRun = [cf \in CaseFiles |-> 0]
  /\ attempts = 1
  /\ \/ /\ snapshots = <<>>
        /\ caseFile = [cf \in CaseFiles |-> [wasScanned |-> FALSE,
                                             hasPendingChanges |-> FALSE,
                                             isScanValid |-> TRUE]]
        /\ successes = [cf \in CaseFiles |-> 0]
     \/ /\ snapshots = <<PriorScrape(1, <<>>)>>
        /\ caseFile = [cf \in CaseFiles |->
                         [wasScanned |-> cf = 1, hasPendingChanges |-> cf = 1,
                          isScanValid |-> TRUE]]
        /\ successes = [cf \in CaseFiles |-> IF cf = 1 THEN 1 ELSE 0]

SpecFirstScrape == InitFirstScrape /\ [][NextWorker]_vars

\* SpecRescrape: the worker on a case file whose first scrape succeeded,
\* while the portal keeps publishing what that scrape found
InitRescrape ==
  /\ PoolInit
  /\ PureIdle
  /\ StopIdle
  /\ QueueInit
  /\ portal \in [CaseFiles -> Contents]
  /\ snapshots = <<PriorScrape(1, portal[1])>>
  /\ changelog = <<>>
  /\ caseFile = [cf \in CaseFiles |->
                   [wasScanned |-> cf = 1, hasPendingChanges |-> cf = 1,
                    isScanValid |-> TRUE]]
  /\ wk = [w \in Workers |-> WkIdle]
  /\ attempts = 1
  /\ faults = 0
  /\ successes = [cf \in CaseFiles |-> IF cf = 1 THEN 1 ELSE 0]
  /\ noChangeRun = [cf \in CaseFiles |-> 0]

NextRescrape ==
  \/ \E w \in Workers : \E cf \in CaseFiles : wkStart(w, cf)
  \/ \E w \in Workers : ClientLaunched(w)
  \/ \E w \in Workers : wkLaunchFailed(w)
  \/ \E w \in Workers : ClientRecycleClosed(w)
  \/ \E w \in Workers : ClientRecycleLaunched(w)
  \/ \E w \in Workers : wkGotBrowser(w)
  \/ \E w \in Workers : wkOpenRejected(w)
  \/ \E w \in Workers : wkPageOpened(w)
  \/ \E w \in Workers : wkStepThrows(w)
  \/ \E w \in Workers : wkScraped(w)
  \/ \E w \in Workers : \E k \in ErrorKinds : wkScrapeFailed(w, k)
  \/ \E w \in Workers : wkDetect(w)
  \/ \E w \in Workers : wkUpsertFind(w)
  \/ \E w \in Workers : wkUpsertWrite(w)
  \/ \E w \in Workers : wkIncrementNoChange(w)
  \/ \E w \in Workers : wkMarkScraped(w)
  \/ \E w \in Workers : wkLogComplete(w)
  \/ \E w \in Workers : \E am \in AttemptsMadeValues : wkLogFailure(w, am)
  \/ \E w \in Workers : wkCatchThrows(w)
  \/ \E w \in Workers : wkRecordFind(w)
  \/ \E w \in Workers : wkRecordWrite(w)
  \/ \E w \in Workers : wkClose(w)
  \/ \E w \in Workers : wkReturn(w)

SpecRescrape == InitRescrape /\ [][NextRescrape]_vars

\* SpecRevert: the worker on a case file whose first scrape stored ContentA,
\* while the portal may publish something else and ContentA again
InitRevert ==
  /\ PoolInit
  /\ PureIdle
  /\ StopIdle
  /\ QueueInit
  /\ portal = [cf \in CaseFiles |-> ContentA]
  /\ snapshots = <<PriorScrape(1, ContentA)>>
  /\ changelog = <<>>
  /\ caseFile = [cf \in CaseFiles |->
                   [wasScanned |-> cf = 1, hasPendingChanges |-> cf = 1,
                    isScanValid |-> TRUE]]
  /\ wk = [w \in Workers |-> WkIdle]
  /\ attempts = 1
  /\ faults = 0
  /\ successes = [cf \in CaseFiles |-> IF cf = 1 THEN 1 ELSE 0]
  /\ noChangeRun = [cf \in CaseFiles |-> 0]

SpecRevert == InitRevert /\ [][NextWorker]_vars

----------------------------------------------------------------------------
(* Shutdown: src/index.ts shutdown (lines 50-65), worker.manager            *)
(* stopWorkers (lines 445-459). Each processor slot stands for one BullMQ   *)
(* Worker of the workers array.                                             *)

\* worker.close() was called on Worker w by some stopWorkers loop: the
\* Worker fetches no further job
Closing(w) == \E k \in Signals : sd[k].i >= w

\* a Worker closed with force: close() resolves without waiting for its job
WorkerClosedAtOnce(w) == TRUE
\* BullMQ Worker.close(): the promise resolves once the Worker's running
\* job has settled and its result is stored
WorkerClosed(w) == wk[w].pc = "idle"

\* process.exit was not called: the event loop still runs callbacks
Alive == ~proc.exited

\* the Worker's loop fetches the next job unless it is closing
wkFetch(w, cf) ==
  /\ ~Closing(w)
  /\ wkStart(w, cf)

\* stopWorkers lines 451-456, up to the first await: the array is
\* truncated; with a pool set, drain() begins (browser-pool.ts lines 120-124)
LeaveCloseLoop(k) ==
  /\ proc' = [proc EXCEPT !.workers = 0]
  /\ IF ~proc.browserPool
     THEN /\ sd' = [sd EXCEPT ![k].pc = "sequelize"]
          /\ UNCHANGED <<pool, waitQueue, closed>>
     ELSE IF Len(pool) = 0
     THEN /\ sd' = [sd EXCEPT ![k].pc = "drained"]
          /\ waitQueue' = <<>>
          /\ UNCHANGED <<pool, closed>>
     ELSE /\ sd' = [sd EXCEPT ![k].pc = "draining", ![k].idx = 1]
          /\ closed' = closed \cup {pooled[pool[1]].browser}
          /\ UNCHANGED <<pool, waitQueue>>

\* process.on(SIGTERM | SIGINT): shutdown(signal) runs into stopWorkers and
\* up to its first await, the close() of the first Worker; busy remembers
\* the Workers that had a job running (history)
shutdown(k) ==
  /\ Alive
  /\ sd[k].pc = "none"
  /\ \A j \in Signals : j < k => sd[j].pc # "none"
  /\ IF proc.workers >= 1
     THEN /\ sd' = [sd EXCEPT ![k] =
                      [pc |-> "closing", i |-> 1, idx |-> 0,
                       busy |-> {w \in Workers : wk[w].pc # "idle"}]]
          /\ UNCHANGED <<proc, pool, waitQueue, closed>>
     ELSE LeaveCloseLoop(k)
  /\ UNCHANGED <<pooled, nextBrowser, acq, held, acquireCalls, drainSt, drainCalls>>
  /\ UNCHANGED nonStopVars

\* stopWorkers line 449: the awaited close() resolved; the for-of loop
\* takes the next Worker of the array as it is now, or ends
stopWorkerClosed(k) ==
  /\ Alive
  /\ sd[k].pc = "closing"
  /\ WorkerClosed(sd[k].i)
  /\ IF sd[k].i < proc.workers
     THEN /\ sd' = [sd EXCEPT ![k].i = @ + 1]
          /\ UNCHANGED <<proc, pool, waitQueue, closed>>
     ELSE LeaveCloseLoop(k)
  /\ UNCHANGED <<pooled, nextBrowser, acq, held, acquireCalls, drainSt, drainCalls>>
  /\ UNCHANGED nonStopVars

\* the awaited close() rejected: stopWorkers throws, shutdown's catch
\* (index.ts lines 58-64) ends the process without draining
stopCloseRejected(k) ==
  /\ Alive
  /\ sd[k].pc = "closing"
  /\ sd' = [sd EXCEPT ![k].pc = "exit"]
  /\ proc' = [proc EXCEPT !.exited = TRUE]
  /\ UNCHANGED <<poolVars, nonStopVars>>

\* drain() lines 122-130 as stopWorkers runs it: one browser.close() settled
\* (a rejection is ignored); the loop closes the next entry or empties the pool
stopDrainStep(k) ==
  /\ Alive
  /\ sd[k].pc = "draining"
  /\ IF sd[k].idx < Len(pool)
     THEN /\ closed' = closed \cup {pooled[pool[sd[k].idx + 1]].browser}
          /\ sd' = [sd EXCEPT ![k].idx = @ + 1]
          /\ UNCHANGED <<pool, waitQueue>>
     ELSE /\ pool' = <<>>
          /\ waitQueue' = <<>>
          /\ sd' = [sd EXCEPT ![k].pc = "drained"]
          /\ UNCHANGED closed
  /\ UNCHANGED <<pooled, nextBrowser, acq, held, acquireCalls, drainSt, drainCalls>>
  /\ UNCHANGED <<proc, nonStopVars>>

\* stopWorkers lines 454-458: the awaited drain() resolved; browserPool =
\* null; back in shutdown, sequelize.close() is awaited
stopDrainReturn(k) ==
  /\ Alive
  /\ sd[k].pc = "drained"
  /\ sd' = [sd EXCEPT ![k].pc = "sequelize"]
  /\ proc' = [proc EXCEPT !.browserPool = FALSE]
  /\ UNCHANGED <<poolVars, nonStopVars>>

\* index.ts lines 55-64: sequelize.close() settled; process.exit(0), or
\* process.exit(1) from the catch
shutdownExit(k) ==
  /\ Alive
  /\ sd[k].pc = "sequelize"
  /\ sd' = [sd EXCEPT ![k].pc = "exit"]
  /\ proc' = [proc EXCEPT !.exited = TRUE]
  /\ UNCHANGED <<poolVars, nonStopVars>>

\* SpecShutdown: the Workers are scraping a case file that was scraped
\* before when the signals arrive
InitShutdown ==
  /\ PoolInit
  /\ PureIdle
  /\ StopIdle
  /\ QueueInit
  /\ portal = [cf \in CaseFiles |-> ContentA]
  /\ snapshots = <<PriorScrape(1, ContentA)>>
  /\ changelog = <<>>
  /\ caseFile = [cf \in CaseFiles |->
                   [wasScanned |-> cf = 1, hasPendingChanges |-> cf = 1,
                    isScanValid |-> TRUE]]
  /\ wk = [w \in Workers |-> WkIdle]
  /\ attempts = 1
  /\ faults = 0
  /\ successes = [cf \in CaseFiles |-> IF cf = 1 THEN 1 ELSE 0]
  /\ noChangeRun = [cf \in CaseFiles |-> 0]

NextShutdown ==
  \/ \E w \in Workers : \E cf \in CaseFiles : Alive /\ wkFetch(w, cf)
  \/ \E w \in Workers : Alive /\ ClientLaunched(w)
  \/ \E w \in Workers : Alive /\ wkLaunchFailed(w)
  \/ \E w \in Workers : Alive /\ ClientRecycleClosed(w)
  \/ \E w \in Workers : Alive /\ ClientRecycleLaunched(w)
  \/ \E w \in Workers : Alive /\ wkGotBrowser(w)
  \/ \E w \in Workers : Alive /\ wkOpenRejected(w)
  \/ \E w \in Workers : Alive /\ wkPageOpened(w)
  \/ \E w \in Workers : Alive /\ wkStepThrows(w)
  \/ \E w \in Workers : Alive /\ wkScraped(w)
  \/ \E w \in Workers : \E k \in ErrorKinds : Alive /\ wkScrapeFailed(w, k)
  \/ \E w \in Workers : Alive /\ wkDetect(w)
  \/ \E w \in Workers : Alive /\ wkUpsertFind(w)
  \/ \E w \in Workers : Alive /\ wkUpsertWrite(w)
  \/ \E w \in Workers : Alive /\ wkIncrementNoChange(w)
  \/ \E w \in Workers : Alive /\ wkMarkScraped(w)
  \/ \E w \in Workers : Alive /\ wkLogComplete(w)
  \/ \E w \in Workers : \E am \in AttemptsMadeValues : Alive /\ wkLogFailure(w, am)
  \/ \E w \in Workers : Alive /\ wkCatchThrows(w)
  \/ \E w \in Workers : Alive /\ wkRecordFind(w)
  \/ \E w \in Workers : Alive /\ wkRecordWrite(w)
  \/ \E w \in Workers : Alive /\ wkClose(w)
  \/ \E w \in Workers : Alive /\ wkReturn(w)
  \/ \E k \in Signals : shutdown(k)
  \/ \E k \in Signals : stopWorkerClosed(k)
  \/ \E k \in Signals : stopCloseRejected(k)
  \/ \E k \in Signals : stopDrainStep(k)
  \/ \E k \in Signals : stopDrainReturn(k)
  \/ \E k \in Signals : shutdownExit(k)

SpecShutdown == InitShutdown /\ [][NextShutdown]_vars

\* SpecShutdownSched: the scheduler started by main (index.ts line 44) while
\* the signals arrive.  No job is running and no browser was launched, so
\* each close() resolves at once and drain() finds the pool empty.  Nothing
\* in shutdown or stopWorkers touches the cron task of startScheduler.
NextShutdownSched ==
  \/ \E s \in TickSlots : Alive /\ cronFire(s)
  \/ \E s \in TickSlots : \E bs \in PlanResults : Alive /\ planResolved(s, bs)
  \/ \E s \in TickSlots : Alive /\ planRejected(s)
  \/ \E s \in TickSlots : Alive /\ monitorAdded(s)
  \/ \E s \in TickSlots : Alive /\ monitorAddRejected(s)
  \/ \E s \in TickSlots : Alive /\ tickReturn(s)
  \/ Alive /\ dayRollover
  \/ \E k \in Signals : shutdown(k)
  \/ \E k \in Signals : stopWorkerClosed(k)
  \/ \E k \in Signals : stopCloseRejected(k)
  \/ \E k \in Signals : stopDrainReturn(k)
  \/ \E k \in Signals : shutdownExit(k)

SpecShutdownSched == InitQueue /\ [][NextShutdownSched]_vars

----------------------------------------------------------------------------
(* Pure functions, each applied once to arguments drawn from a bounded set *)

\* everything but call and ret is idle
RestIdle == PoolInit /\ StopIdle /\ QueueInit /\ StoreInit

\* SpecDiff: computeStructuredDiff on two normalized lists; entry i of a
\* list has index i, as normalizeAllBinnacles leaves a scraped list
BinnacleKeys == {"k1", "k2"}
BinnacleActos == {"x", "y"}
BinnacleLists ==
  UNION {[1..n -> BinnacleKeys \X BinnacleActos] : n \in 0..MaxBinnacles}
AsBinnacles(l) ==
  [i \in 1..Len(l) |-> [index |-> i, key |-> l[i][1], acto |-> l[i][2]]]

InitDiff ==
  /\ RestIdle
  /\ call \in {[oldData |-> AsBinnacles(o), newData |-> AsBinnacles(n)] :
                 o \in BinnacleLists, n \in BinnacleLists}
  /\ ret = <<>>

callComputeStructuredDiff ==
  /\ ret = <<>>
  /\ ret' = [changes |-> computeStructuredDiff(call.oldData, call.newData)]
  /\ UNCHANGED <<call, nonPureVars>>

SpecDiff == InitDiff /\ [][callComputeStructuredDiff]_vars

\* SpecDue: shouldScrapeNow (scheduler/schedule-planner.ts) on one case
\* file and its latest snapshot.  Dates are day numbers.
NEW_CASE_MAX_AGE_DAYS == 7
ACTIVE_CHANGE_WINDOW_DAYS == 7
MODERATE_STALE_DAYS == 30
HIGH_STALE_DAYS == 90
VERY_STALE_SCRAPE_INTERVAL_DAYS == 7
HIGH_STALE_SCRAPE_INTERVAL_DAYS == 3
MODERATE_STALE_SCRAPE_INTERVAL_DAYS == 1

\* snapshotMap.get(caseFileId) || null: no snapshot of the case file
NoSnapshotRow == [lastChangedAt |-> None, lastScrapedAt |-> None]

\* nowLima().diff(date, "days"): whole days
daysSince(date) == PlanDay - date

\* the way the spec lists the rules: due when any of them holds
shouldScrapeNowAnyRule(createdAt, snapshot) ==
  \/ daysSince(createdAt) < NEW_CASE_MAX_AGE_DAYS
  \/ snapshot = NoSnapshotRow
  \/ /\ snapshot # NoSnapshotRow
     /\ \/ daysSince(snapshot.lastChangedAt) < ACTIVE_CHANGE_WINDOW_DAYS
        \/ /\ daysSince(snapshot.lastChangedAt) > HIGH_STALE_DAYS
           /\ daysSince(snapshot.lastScrapedAt) >= VERY_STALE_SCRAPE_INTERVAL_DAYS
        \/ /\ daysSince(snapshot.lastChangedAt) > MODERATE_STALE_DAYS
           /\ daysSince(snapshot.lastScrapedAt) >= HIGH_STALE_SCRAPE_INTERVAL_DAYS
        \/ daysSince(snapshot.lastScrapedAt) >= MODERATE_STALE_SCRAPE_INTERVAL_DAYS

shouldScrapeNow(createdAt, snapshot) ==
  IF daysSince(createdAt) < NEW_CASE_MAX_AGE_DAYS THEN TRUE
  ELSE IF snapshot = NoSnapshotRow THEN TRUE
  ELSE IF daysSince(snapshot.lastChangedAt) < ACTIVE_CHANGE_WINDOW_DAYS THEN TRUE
  ELSE LET daysSinceLastScrape == daysSince(snapshot.lastScrapedAt)
           daysSinceLastChange == daysSince(snapshot.lastChangedAt) IN
       IF daysSinceLastChange > HIGH_STALE_DAYS
       THEN daysSinceLastScrape >= VERY_STALE_SCRAPE_INTERVAL_DAYS
       ELSE IF daysSinceLastChange > MODERATE_STALE_DAYS
       THEN daysSinceLastScrape >= HIGH_STALE_SCRAPE_INTERVAL_DAYS
       ELSE daysSinceLastScrape >= MODERATE_STALE_SCRAPE_INTERVAL_DAYS

\* ages, in days, on both sides of every threshold
Ages == {0, 1, 2, 3, 6, 7, 8, 30, 31, 90, 91}
Dates == {PlanDay - a : a \in Ages}

\* a snapshot is written after its case file was created, and its last
\* change is not later than its last scrape
InitDue ==
  /\ RestIdle
  /\ call \in {[createdAt |-> c, snapshot |-> NoSnapshotRow] : c \in Dates} \cup
              {[createdAt |-> c,
                snapshot |-> [lastChangedAt |-> ch, lastScrapedAt |-> sc]] :
                 c \in Dates, ch \in Dates, sc \in Dates}
  /\ call.snapshot # NoSnapshotRow =>
       /\ call.createdAt <= call.snapshot.lastChangedAt
       /\ call.snapshot.lastChangedAt <= call.snapshot.lastScrapedAt
  /\ ret = <<>>

callShouldScrapeNow ==
  /\ ret = <<>>
  /\ ret' = [due |-> shouldScrapeNow(call.createdAt, call.snapshot)]
  /\ UNCHANGED <<call, nonPureVars>>

SpecDue == InitDue /\ [][callShouldScrapeNow]_vars

----------------------------------------------------------------------------
(* planNextBatch: scheduler/batch-planner (part_008 lines 44-128), applied  *)
(* to one state of the database.  db.schedule[c] is the CEJ_MONITORING      *)
(* schedule of customer-has-bank c, db.customer[c] its customer.            *)

\* ScheduledNotifications.findAll (lines 48-68): state true, with the
\* required customer where isScrapperActive and state = 1
ScheduleFound(db, c) ==
  /\ db.schedule[c].state
  /\ db.customer[c].isScrapperActive
  /\ db.customer[c].state = 1

\* a where clause that leaves isScanValid out
CaseFileWhereAnyScan(cf, chbId) ==
  /\ cf.customerHasBankId = chbId
  /\ cf.isArchived = FALSE
  /\ cf.scrapeEnabled = TRUE
\* JudicialCaseFile.findAll (lines 79-86): the where clause
CaseFileWhere(cf, chbId) ==
  /\ cf.customerHasBankId = chbId
  /\ cf.isArchived = FALSE
  /\ cf.scrapeEnabled = TRUE
  /\ cf.isScanValid = TRUE

\* lines 92-105: the rows found, filtered by shouldScrapeNow
EligibleCaseFiles(db, c) ==
  {f \in DOMAIN db.caseFile :
     /\ CaseFileWhere(db.caseFile[f], c)
     /\ shouldScrapeNow(db.caseFile[f].createdAt, db.caseFile[f].snapshot)}

\* lines 70-116: one batch per schedule found that has eligible case files
planNextBatch(db) ==
  {[customerHasBankId |-> c, caseFiles |-> EligibleCaseFiles(db, c)] :
     c \in {x \in DOMAIN db.schedule :
              ScheduleFound(db, x) /\ EligibleCaseFiles(db, x) # {}}}

\* a case file created today, one never scraped, one scraped today
PlanHistories ==
  {[createdAt |-> PlanDay, snapshot |-> NoSnapshotRow],
   [createdAt |-> PlanDay - 8, snapshot |-> NoSnapshotRow],
   [createdAt |-> PlanDay - 8,
    snapshot |-> [lastChangedAt |-> PlanDay - 8, lastScrapedAt |-> PlanDay]]}

InitPlan ==
  /\ RestIdle
  /\ call \in
       [schedule : [1..NumPlanChbs -> [state : BOOLEAN]],
        customer : [1..NumPlanChbs -> [isScrapperActive : BOOLEAN, state : {0, 1}]],
        caseFile : [1..NumPlanCaseFiles ->
                      {[customerHasBankId |-> c, isArchived |-> a,
                        scrapeEnabled |-> e, isScanValid |-> v,
                        createdAt |-> h.createdAt, snapshot |-> h.snapshot] :
                         c \in 1..NumPlanChbs, a \in BOOLEAN, e \in BOOLEAN,
                         v \in BOOLEAN, h \in PlanHistories}]]
  /\ ret = <<>>

callPlanNextBatch ==
  /\ ret = <<>>
  /\ ret' = [batches |-> planNextBatch(call)]
  /\ UNCHANGED <<call, nonPureVars>>

SpecPlan == InitPlan /\ [][callPlanNextBatch]_vars

----------------------------------------------------------------------------
(* Binnacle and attachment persistence: processScrapeJob lines 153-208     *)
(* (worker.manager, part_013), persistence/repositories/                    *)
(* binnacle.repository.ts and file.repository.ts, downloadFile (part_014), *)
(* uploadFile (part_006).  All attempts are for CaseFile 1.                *)

PJobs == 1..NumPersistJobs

\* what an attempt scraped: entry i has index i (binnacle-extractor,
\* part_016 line 112); urlDownload is present or not
ScrapedLists ==
  UNION {[1..n -> BOOLEAN] : n \in 1..MaxBinnacles}
AsScraped(l) == [i \in 1..Len(l) |-> [index |-> i, urlDownload |-> l[i]]]

\* findByCaseFileId (binnacle.repository.ts lines 14-20): the rows of the
\* case file; JUDICIAL_BINNACLE declares no unique index (models/index.ts
\* lines 402-435), so several rows may carry one index
BinnacleRowIds == 1..Len(binnacles)

\* existingByIndex.get(index) after the loop of lines 76-78: the last row
\* with that index
LastWithIndex(ids, x) ==
  LET m == {r \in ids : binnacles[r].index = x} IN
  IF m = {} THEN None ELSE CHOOSE r \in m : \A q \in m : q <= r

\* existingBinnacles.find((b) => b.get("index") === rawBin.index), lines
\* 160-162 and 175-177: the first row with that index
FirstWithIndex(ids, x) ==
  LET m == {r \in ids : binnacles[r].index = x} IN
  IF m = {} THEN None ELSE CHOOSE r \in m : \A q \in m : r <= q

\* upsertBinnacles lines 83-90: the entries without a row of their index
ToCreate(scraped, existing) ==
  SelectSeq(scraped, LAMBDA e : LastWithIndex(existing, e.index) = None)

\* line 153: the attempt reaches upsertBinnacles with its valid binnacles
persistStart(j, c) ==
  /\ pj[j].pc = "idle"
  /\ persistRuns < MaxPersistRuns
  /\ persistRuns' = persistRuns + 1
  /\ pj' = [pj EXCEPT ![j] = [PjIdle EXCEPT !.pc = "upsertFind", !.scraped = c,
                                            !.stamp = persistRuns + 1]]
  /\ UNCHANGED <<binnacles, binFiles, persistFaults>>
  /\ UNCHANGED nonPersistVars

\* upsertBinnacles line 75: const existing = await findByCaseFileId(...)
upsertFind(j) ==
  /\ pj[j].pc = "upsertFind"
  /\ pj' = [pj EXCEPT ![j].pc = "bulkCreate", ![j].existing = BinnacleRowIds]
  /\ UNCHANGED <<binnacles, binFiles, persistRuns, persistFaults>>
  /\ UNCHANGED nonPersistVars

\* upsertBinnacles lines 93-95: JudicialBinnacle.bulkCreate(toCreate)
upsertBulkCreate(j) ==
  /\ pj[j].pc = "bulkCreate"
  /\ LET toCreate == ToCreate(pj[j].scraped, pj[j].existing) IN
     binnacles' = binnacles \o
       [k \in 1..Len(toCreate) |->
          [judicialFileCaseId |-> 1, index |-> toCreate[k].index,
           writtenBy |-> pj[j].stamp]]
  /\ pj' = [pj EXCEPT ![j].pc = "update"]
  /\ UNCHANGED <<binFiles, persistRuns, persistFaults>>
  /\ UNCHANGED nonPersistVars

\* upsertBinnacles lines 99-105: one update by id per matched entry
upsertUpdate(j) ==
  /\ pj[j].pc = "update"
  /\ binnacles' =
       [r \in BinnacleRowIds |->
          IF \E k \in 1..Len(pj[j].scraped) :
               LastWithIndex(pj[j].existing, pj[j].scraped[k].index) = r
          THEN [binnacles[r] EXCEPT !.writtenBy = pj[j].stamp]
          ELSE binnacles[r]]
  /\ pj' = [pj EXCEPT ![j].pc = "refetch"]
  /\ UNCHANGED <<binFiles, persistRuns, persistFaults>>
  /\ UNCHANGED nonPersistVars

\* line 158: existingBinnacles = await findByCaseFileId(caseFileId); the
\* notification rows of lines 159-170 are not held
persistRefetch(j) ==
  /\ pj[j].pc = "refetch"
  /\ pj' = [pj EXCEPT ![j].pc = "files", ![j].rows = BinnacleRowIds, ![j].i = 1]
  /\ UNCHANGED <<binnacles, binFiles, persistRuns, persistFaults>>
  /\ UNCHANGED nonPersistVars

\* lines 173-187: the loop head up to existsForBinnacle; after the last
\* binnacle control reaches the snapshot upsert of line 211
fileCheck(j) ==
  /\ pj[j].pc = "files"
  /\ LET i == pj[j].i IN
     IF i > Len(pj[j].scraped) THEN pj' = [pj EXCEPT ![j].pc = "snapshot"]
     ELSE LET e == pj[j].scraped[i]
              b == FirstWithIndex(pj[j].rows, e.index) IN
          IF ~e.urlDownload \/ b = None
             \/ [judicialBinnacleId |-> b, originalName |-> e.index] \in binFiles
          THEN pj' = [pj EXCEPT ![j].i = i + 1]
          ELSE pj' = [pj EXCEPT ![j].pc = "download"]
  /\ UNCHANGED <<binnacles, binFiles, persistRuns, persistFaults>>
  /\ UNCHANGED nonPersistVars

\* downloadFile (part_014 lines 122-175) returned the file
fileDownloaded(j) ==
  /\ pj[j].pc = "download"
  /\ pj' = [pj EXCEPT ![j].pc = "upload"]
  /\ UNCHANGED <<binnacles, binFiles, persistRuns, persistFaults>>
  /\ UNCHANGED nonPersistVars

\* downloadFile caught its error (lines 176-186) or saw an HTTP error
\* (lines 145-151) and returned null: line 189 skips the binnacle
fileDownloadFailed(j) ==
  /\ pj[j].pc = "download"
  /\ persistFaults < MaxPersistFaults
  /\ persistFaults' = persistFaults + 1
  /\ pj' = [pj EXCEPT ![j].pc = "files", ![j].i = @ + 1,
                      ![j].fileFault = "download"]
  /\ UNCHANGED <<binnacles, binFiles, persistRuns>>
  /\ UNCHANGED nonPersistVars

\* s3Client.uploadFile (part_006 lines 45-69) resolved with the key
fileUploaded(j) ==
  /\ pj[j].pc = "upload"
  /\ pj' = [pj EXCEPT ![j].pc = "fileCreate"]
  /\ UNCHANGED <<binnacles, binFiles, persistRuns, persistFaults>>
  /\ UNCHANGED nonPersistVars

\* uploadFile rejected (readFileSync or the S3 send, lines 53-61): nothing
\* between lines 173 and 208 catches it, control passes to line 285
fileUploadFailed(j) ==
  /\ pj[j].pc = "upload"
  /\ persistFaults < MaxPersistFaults
  /\ persistFaults' = persistFaults + 1
  /\ pj' = [pj EXCEPT ![j].pc = "catch", ![j].fileFault = "upload"]
  /\ UNCHANGED <<binnacles, binFiles, persistRuns>>
  /\ UNCHANGED nonPersistVars

\* lines 196-203: fileRepo.create and cleanupDownload
fileCreated(j) ==
  /\ pj[j].pc = "fileCreate"
  /\ LET e == pj[j].scraped[pj[j].i] IN
     binFiles' = binFiles \cup
       {[judicialBinnacleId |-> FirstWithIndex(pj[j].rows, e.index),
         originalName |-> e.index]}
  /\ pj' = [pj EXCEPT ![j].pc = "files", ![j].i = @ + 1]
  /\ UNCHANGED <<binnacles, persistRuns, persistFaults>>
  /\ UNCHANGED nonPersistVars

\* lines 210-283: the snapshot is upserted and the attempt returns its
\* result (these steps are the wk actions of the worker specifications)
persistSnapshotSaved(j) ==
  /\ pj[j].pc = "snapshot"
  /\ pj' = [pj EXCEPT ![j].pc = "completed", ![j].saved = TRUE]
  /\ UNCHANGED <<binnacles, binFiles, persistRuns, persistFaults>>
  /\ UNCHANGED nonPersistVars

\* lines 285-311: the catch block logs the failure and rethrows
persistCatch(j) ==
  /\ pj[j].pc = "catch"
  /\ pj' = [pj EXCEPT ![j].pc = "failed"]
  /\ UNCHANGED <<binnacles, binFiles, persistRuns, persistFaults>>
  /\ UNCHANGED nonPersistVars

\* the processor's promise is settled; the slot takes a later job
persistReturn(j) ==
  /\ pj[j].pc \in {"completed", "failed"}
  /\ pj' = [pj EXCEPT ![j] = PjIdle]
  /\ UNCHANGED <<binnacles, binFiles, persistRuns, persistFaults>>
  /\ UNCHANGED nonPersistVars

NextPersist ==
  \/ \E j \in PJobs, l \in ScrapedLists : persistStart(j, AsScraped(l))
  \/ \E j \in PJobs : upsertFind(j)
  \/ \E j \in PJobs : upsertBulkCreate(j)
  \/ \E j \in PJobs : upsertUpdate(j)
  \/ \E j \in PJobs : persistRefetch(j)
  \/ \E j \in PJobs : fileCheck(j)
  \/ \E j \in PJobs : fileDownloaded(j)
  \/ \E j \in PJobs : fileDownloadFailed(j)
  \/ \E j \in PJobs : fileUploaded(j)
  \/ \E j \in PJobs : fileUploadFailed(j)
  \/ \E j \in PJobs : fileCreated(j)
  \/ \E j \in PJobs : persistSnapshotSaved(j)
  \/ \E j \in PJobs : persistCatch(j)
  \/ \E j \in PJobs : persistReturn(j)

SpecPersist == InitQueue /\ [][NextPersist]_vars

\* SpecPriority: the priority planNextBatch gives a batch
\* (scheduler/deadline-calculator.ts).  A time of day "HH:mm" is its number
\* of minutes since midnight.
MinutesPerHour == 60
MinutesPerDay == 1440

\* hoursUntil (date.ts lines 27-37), in minutes: the target is today's
\* HH:mm, or tomorrow's when it has passed
hoursUntil(targetHour, clock) ==
  IF targetHour < clock THEN targetHour + MinutesPerDay - clock
  ELSE targetHour - clock

\* Math.min(...hours.map(hoursUntil))
MinHoursUntil(hours, clock) ==
  LET hs == {hoursUntil(hours[i], clock) : i \in 1..Len(hours)} IN
  CHOOSE m \in hs : \A h \in hs : m <= h

PriorityOfMinutes(minHours) ==
  IF minHours < 1 * MinutesPerHour THEN PRIORITY_CRITICAL
  ELSE IF minHours < 3 * MinutesPerHour THEN PRIORITY_HIGH
  ELSE IF minHours < 6 * MinutesPerHour THEN PRIORITY_MEDIUM
  ELSE PRIORITY_LOW

calculatePriorityFromMultipleHours(hours, clock) ==
  IF Len(hours) = 0 THEN PRIORITY_LOW
  ELSE PriorityOfMinutes(MinHoursUntil(hours, clock))

\* planNextBatch lines 70-75 and 108-116: the batch of one schedule
PlanBatchPriority(rawHours, clock) ==
  LET notificationHours == rawHours IN
  calculatePriorityFromMultipleHours(notificationHours, clock)

\* 00:00, 09:00 and 23:59 as notification hours; clock readings on both
\* sides of the 1, 3 and 6 hour marks before 23:59 and before 00:00
NotificationHours == {0, 9 * 60, 23 * 60 + 59}
ClockReadings == {0, 17 * 60 + 59, 18 * 60, 20 * 60 + 59, 21 * 60,
                  22 * 60 + 59, 23 * 60, 23 * 60 + 59}

InitPriority ==
  /\ RestIdle
  /\ call \in {[hourTimeToNotify |-> h, clock |-> c] :
                 h \in UNION {[1..n -> NotificationHours] : n \in 0..MaxHours},
                 c \in ClockReadings}
  /\ ret = <<>>

callPlanBatchPriority ==
  /\ ret = <<>>
  /\ ret' = [priority |-> PlanBatchPriority(call.hourTimeToNotify, call.clock)]
  /\ UNCHANGED <<call, nonPureVars>>

SpecPriority == InitPriority /\ [][callPlanBatchPriority]_vars

\* SpecCaptcha: CaptchaSolver.solve (scraping/captcha/captcha-solver.ts) on
\* a list of strategies.  A strategy is what it does on the page at hand:
\* canHandle returns false or throws, or solve returns unsolved, throws or
\* returns solved.
StrategyBehaviours ==
  {"notApplicable", "canHandleThrows", "unsolved", "solveThrows", "solved"}

\* the loop of solve from strategy i on; calls lists the calls made
RECURSIVE SolveFromWithoutCatch(_, _, _)
SolveFromWithoutCatch(strategies, i, calls) ==
  IF i > Len(strategies)
  THEN [solvedBy |-> None, error |-> "CAPTCHA_FAILED", calls |-> calls]
  ELSE LET asked == Append(calls, <<"canHandle", i>>)
           tried == Append(asked, <<"solve", i>>) IN
       CASE strategies[i] = "notApplicable" ->
              SolveFromWithoutCatch(strategies, i + 1, asked)
         [] strategies[i] = "canHandleThrows" ->
              [solvedBy |-> None, error |-> "UNKNOWN", calls |-> asked]
         [] strategies[i] = "unsolved" ->
              SolveFromWithoutCatch(strategies, i + 1, tried)
         [] strategies[i] = "solveThrows" ->
              [solvedBy |-> None, error |-> "UNKNOWN", calls |-> tried]
         [] strategies[i] = "solved" ->
              [solvedBy |-> i, error |-> "", calls |-> tried]

RECURSIVE SolveFrom(_, _, _)
SolveFrom(strategies, i, calls) ==
  IF i > Len(strategies)
  THEN [solvedBy |-> None, error |-> "CAPTCHA_FAILED", calls |-> calls]
  ELSE LET asked == Append(calls, <<"canHandle", i>>)
           tried == Append(asked, <<"solve", i>>) IN
       CASE strategies[i] = "notApplicable" -> SolveFrom(strategies, i + 1, asked)
         [] strategies[i] = "canHandleThrows" -> SolveFrom(strategies, i + 1, asked)
         [] strategies[i] = "unsolved" -> SolveFrom(strategies, i + 1, tried)
         [] strategies[i] = "solveThrows" -> SolveFrom(strategies, i + 1, tried)
         [] strategies[i] = "solved" ->
              [solvedBy |-> i, error |-> "", calls |-> tried]

InitCaptcha ==
  /\ RestIdle
  /\ call \in {[strategies |-> st] :
                 st \in UNION {[1..n -> StrategyBehaviours] : n \in 0..MaxStrategies}}
  /\ ret = <<>>

callSolve ==
  /\ ret = <<>>
  /\ ret' = SolveFrom(call.strategies, 1, <<>>)
  /\ UNCHANGED <<call, nonPureVars>>

SpecCaptcha == InitCaptcha /\ [][callSolve]_vars

----------------------------------------------------------------------------
(* Properties                                                              *)

\* processScrapeJob is running for the case file
InFlight(cf) == \E w \in Workers : wk[w].cf = cf /\ wk[w].pc # "idle"

SnapshotRows(cf) == {i \in 1..Len(snapshots) : snapshots[i].caseFileId = cf}

LiveStates == {"waiting", "active", "delayed"}
NonRetryableKinds == {"INVALID_CASE_NUMBER", "VALIDATION_FAILED"}

\* C1: under any interleaving of acquire() and release(), concurrent
\* launches included, the number of sessions owned by the pool never
\* exceeds maxSize.
C1_PoolSizeWithinMax == Len(pool) <= maxSize

\* C2: an attempt that has finished, on whatever exit path, has released
\* the browser it acquired exactly once (and has released nothing if its
\* acquire never resolved); no attempt ever releases twice.
C2_ReleasedExactlyOnce ==
  \A w \in Workers :
    /\ wk[w].releases <= 1
    /\ wk[w].pc = "finished" =>
         /\ wk[w].releases = (IF wk[w].acquired THEN 1 ELSE 0)
         /\ held[w] = None

\* an attempt that acquired a browser, threw in the try block, threw again
\* while recording the failure, and is finished
C2_Witness ==
  \E w \in Workers :
    /\ wk[w].pc = "finished"
    /\ wk[w].acquired
    /\ ~wk[w].ok
    /\ wk[w].row = "STARTED"
    /\ wk[w].releases = 1
    /\ faults >= 2

\* C3: whatever the interleaving of the enqueues, a queue never holds two
\* jobs with the same dedup key.
C3_OneJobPerDedupKey ==
  \A i, j \in JobIdx :
    (i # j /\ jobs[i].state # "removed" /\ jobs[j].state # "removed")
      => ~(jobs[i].lane = jobs[j].lane /\ jobs[i].id = jobs[j].id)

\* an add was ignored because of a job that has been pending ever since it
\* was enqueued: two enqueues with one key, one job
C3_Witness ==
  /\ ignoredAdds >= 1
  /\ \E i \in JobIdx : /\ jobs[i].lane \in {QUEUE_INITIAL, QUEUE_PRIORITY}
                       /\ jobs[i].state = "waiting"
                       /\ jobs[i].attemptsMade = 0
                       /\ \A k \in JobIdx : jobs[k].lane = jobs[i].lane => k = i

\* C4: a job whose latest attempt threw a non-retryable kind is failed: it
\* is not scheduled for another attempt.
C4_NonRetryableFailsJob ==
  \A j \in JobIdx :
    jobs[j].row.code \in NonRetryableKinds => jobs[j].state = "failed"

\* C5: when no attempt is running for a case file, the scrapeCount of its
\* snapshot is the number of successful scrapes of the case file.
C5_ScrapeCountIsSuccesses ==
  \A cf \in CaseFiles :
    ~InFlight(cf) =>
      \A i \in SnapshotRows(cf) : snapshots[i].scrapeCount = successes[cf]

\* C6: in a run without failures, when no attempt is running for a case
\* file, consecutiveNoChange is the number of successful no-change scrapes
\* since the last scrape that was a first scrape or emitted changes.
C6_ConsecutiveNoChangeIsRun ==
  \A cf \in CaseFiles :
    (faults = 0 /\ ~InFlight(cf)) =>
      \A i \in SnapshotRows(cf) :
        snapshots[i].consecutiveNoChange = noChangeRun[cf]

\* C7: at most one tick body is planning or enqueueing at any time, and a
\* tick that fired while another one ran has planned and enqueued nothing.
C7_OneTickBody ==
  /\ Cardinality({s \in TickSlots : tick[s].pc \in {"planning", "enqueueing"}}) <= 1
  /\ \A s \in TickSlots :
       tick[s].pc = "skipped" => (~tick[s].planned /\ tick[s].added = 0)

\* a tick fired while another tick body was running, and returned at once
C7_Witness ==
  \E s, r \in TickSlots :
    /\ tick[s].pc \in {"planning", "enqueueing"}
    /\ tick[r].pc = "skipped"

\* C8: over the three lanes together, at most rateLimitMax jobs start in
\* any window of rateLimitDuration.
C8_SharedRateLimit == Len(recentStarts) <= rateLimitMax

\* C9: a snapshot row never keeps the content hash of an attempt that has
\* ended without inserting the change-log rows of the diff it computed.
C9_HashImpliesChangeLog ==
  \A i \in 1..Len(snapshots) :
    snapshots[i].owed =>
      \E w \in Workers : /\ wk[w].stamp = snapshots[i].writer
                         /\ wk[w].pc \notin {"idle", "finished"}

C11_NextAcquisitionRecycles ==
  [][\A t \in Tasks :
       (acq[t].st # "resolved" /\ acq'[t].st = "resolved") =>
         \A a \in DOMAIN pooled :
           (/\ a \in DOMAIN pooled'
            /\ pooled'[a].browser = acq'[t].res
            /\ pooled[a].pageCount >= maxPagesPerBrowser)
           => pooled'[a].pageCount = 0]_vars

\* C12: while callers wait, every session is in use and the pool is at its
\* cap; a waiting caller is granted a session only as the head of the wait
\* queue, and the session it is granted was in use before and after the
\* release; a newly arriving caller gets nothing while somebody waits.
C12_FifoHandOff ==
  [][/\ waitQueue # <<>> => (FreeIdx = {} /\ ~PoolNotFull)
     /\ \A t \in Tasks :
          (acq[t].st = "queued" /\ acq'[t].st = "resolved") =>
            /\ waitQueue # <<>>
            /\ t = Head(waitQueue)
            /\ waitQueue' = Tail(waitQueue)
            /\ \E a \in DOMAIN pooled :
                 /\ pooled[a].browser = acq'[t].res
                 /\ pooled[a].inUse
                 /\ pooled'[a].inUse
     /\ \A t \in Tasks :
          (acq[t].st = "none" /\ acq'[t].st \in {"resolved", "recycleClose", "launchNew"})
            => waitQueue = <<>>]_vars

\* a released session went straight to the first of two waiters: it counts
\* more pages than the idle path of acquire() ever returns, and the second
\* waiter is still queued
C12_Witness ==
  /\ waitQueue # <<>>
  /\ \E t \in Tasks :
       /\ acq[t].st = "resolved"
       /\ \E a \in DOMAIN pooled : /\ pooled[a].browser = acq[t].res
                                   /\ pooled[a].pageCount >= maxPagesPerBrowser

\* C13: no two MONITOR jobs of one case file are pending, active or delayed
\* at the same time, a tick on the next calendar day included.
C13_OneMonitorJobPerCaseFile ==
  \A i, j \in JobIdx :
    (/\ i # j
     /\ jobs[i].lane = QUEUE_MONITOR
     /\ jobs[j].lane = QUEUE_MONITOR
     /\ jobs[i].cf = jobs[j].cf
     /\ jobs[i].state \in LiveStates)
    => jobs[j].state \notin LiveStates

\* C14: an add whose dedup key is held by no job, or only by jobs that are
\* completed or failed, creates a new job.
C14_FinishedKeyAllowsReenqueue ==
  [][\A p \in Producers :
       (/\ prod[p].pc = "adding"
        /\ prod'[p].pc = "idle"
        /\ \A i \in JobIdx :
             (jobs[i].lane = prod[p].lane /\ jobs[i].id = prod[p].id)
               => jobs[i].state \in {"completed", "failed"})
       => Len(jobs') = Len(jobs) + 1]_vars

C16_PriorityRequestAlwaysCreatesJob ==
  [][\A p \in Producers :
       (prod[p].pc = "adding" /\ prod[p].lane = QUEUE_PRIORITY /\ prod'[p].pc = "idle")
         => /\ Len(jobs') = Len(jobs) + 1
            /\ jobs'[Len(jobs')].id = prod[p].id]_vars

\* C17: when a job attempt ends with the portal's no-results state
\* (InvalidCaseNumber), the case file's scan-valid flag is false afterwards.
C17_NoResultsClearsScanValid ==
  [][\A w \in Workers :
       (wk[w].pc = "finished" /\ wk[w].err = "INVALID_CASE_NUMBER" /\ wk'[w].pc = "idle")
         => ~caseFile'[wk[w].cf].isScanValid]_vars

\* C18: a failed attempt leaves the job's log row of that attempt with the
\* error kind, and with status RETRYING if and only if the queue will run
\* another attempt of the job (the job is delayed for a retry), FAILED
\* otherwise.
C18_RetryingIffAnotherAttempt ==
  [][\A j \in JobIdx :
       (jobs[j].state = "active" /\ jobs'[j].state \in {"delayed", "failed"})
         => /\ jobs'[j].rows = jobs[j].rows
            /\ jobs'[j].row.code \in ErrorKinds
            /\ jobs'[j].row.status = IF jobs'[j].state = "delayed"
                                     THEN "RETRYING" ELSE "FAILED"]_vars

\* C19: after every failed job attempt for a case file, the case file's
\* snapshot records the failure: a snapshot of the case file exists whose
\* lastError is set and whose errorCount counts at least this failure.
C19_FailureRecordedOnSnapshot ==
  [][\A w \in Workers :
       (wk[w].pc = "finished" /\ ~wk[w].ok /\ wk'[w].pc = "idle")
         => \E i \in SnapshotRows(wk[w].cf) :
              /\ snapshots[i].lastError # None
              /\ snapshots[i].errorCount >= 1]_vars

\* C20: an attempt that finds no prior snapshot of its case file, or a prior
\* snapshot with an empty payload, is treated as the first scrape, and from
\* then on none of its steps inserts a change log entry, whatever binnacles
\* it scraped.
C20_FirstScrapeInsertsNoChangeLog ==
  [][\A w \in Workers :
       /\ (wk[w].pc = "detect" /\ wk'[w].pc = "upsertFind")
            => LET i == findLatestByCaseFileId(wk[w].cf) IN
               (i = 0 \/ snapshots[i].rawData = <<>>) => wk'[w].det.isFirstScrape
       /\ (wk[w].det.isFirstScrape /\ wk'[w] # wk[w])
            => changelog' = changelog]_vars

C20_Witness ==
  /\ changelog = <<>>
  /\ \E w \in Workers : /\ wk[w].pc = "finished"
                         /\ wk[w].ok
                         /\ wk[w].det.isFirstScrape
                         /\ wk[w].scraped # <<>>
                         /\ wk[w].existing.idx # 0
                         /\ snapshots[wk[w].existing.idx].rawData = wk[w].scraped

\* C21: after the first successful scrape of a case file (no prior
\* snapshot), the case file's hasPendingChanges is false: the markScraped of
\* an attempt that found no prior snapshot writes false.
C21_FirstScrapeLeavesNoPendingChanges ==
  [][\A w \in Workers :
       (wk[w].pc = "mark" /\ wk'[w].pc = "logComplete" /\ wk[w].det.isFirstScrape)
         => ~caseFile'[wk[w].cf].hasPendingChanges]_vars

\* C22: as long as the portal publishes what the previous successful scrape
\* of a case file found, further scrapes of it leave exactly one snapshot
\* row, never come to insert a change log entry, and leave contentHash as it
\* was.
C22_RescrapeWithoutChangeIsIdempotent ==
  \A cf \in CaseFiles :
    successes[cf] >= 1 =>
      /\ Cardinality(SnapshotRows(cf)) = 1
      /\ \A i \in SnapshotRows(cf) : snapshots[i].contentHash = computeHash(portal[cf])
      /\ changelog = <<>>
      /\ \A w \in Workers : wk[w].cf = cf => wk[w].pc # "changelog"

\* the second scrape has succeeded
C22_Witness ==
  \E w \in Workers :
    /\ wk[w].pc = "finished"
    /\ wk[w].ok
    /\ ~wk[w].det.isFirstScrape
    /\ ~wk[w].det.hasChanges
    /\ \A i \in SnapshotRows(wk[w].cf) : /\ snapshots[i].scrapeCount = 2
                                          /\ snapshots[i].consecutiveNoChange = 1

\* C23 (as stated): if the snapshot's contentHash at a later time equals its
\* contentHash at an earlier time, no change log entry was emitted for the
\* case file in between.  The earlier time is the start, where the hash is
\* that of ContentA and the change log is empty.
C23_SameHashMeansNoChangeLog ==
  \A i \in 1..Len(snapshots) :
    snapshots[i].contentHash = computeHash(ContentA) =>
      \A k \in 1..Len(changelog) : changelog[k].caseFileId # snapshots[i].caseFileId

\* C23 (amended): change log entries are emitted only by an attempt whose
\* detection read a snapshot with a contentHash different from the hash of
\* what the attempt scraped; an attempt that reads a snapshot with the same
\* hash emits none.
C23_EntriesOnlyOnDifferentHash ==
  [][/\ \A w \in Workers :
          (wk[w].pc = "detect" /\ wk'[w].pc = "upsertFind"
             /\ Len(wk'[w].det.changes) > 0)
            => LET i == findLatestByCaseFileId(wk[w].cf) IN
               /\ i # 0
               /\ snapshots[i].contentHash # computeHash(wk[w].scraped)
     /\ changelog' # changelog
          => \E w \in Workers : /\ wk[w].pc = "changelog"
                                /\ wk'[w].pc = "mark"
                                /\ Len(wk[w].det.changes) > 0
                                /\ changelog' = changelog \o ChangeRecords(w)]_vars

\* the portal went from ContentA to ContentB and back: both scrapes emitted
\* entries and the hash is that of ContentA again
C23_Witness ==
  /\ Len(changelog) >= 2
  /\ \E i \in 1..Len(snapshots) : /\ snapshots[i].contentHash = computeHash(ContentA)
                                   /\ snapshots[i].scrapeCount = 3
  /\ \A w \in Workers : wk[w].pc = "idle"

\* C24: for lists with differing hashes the diff holds exactly one
\* NEW_BINNACLE per new entry whose key matches no old entry, one
\* MODIFIED_BINNACLE per differing field of each new entry whose key matches
\* an old entry, and one REMOVED_BINNACLE per old entry whose key matches no
\* new entry.
C24_DiffIsExact ==
  (ret # <<>> /\ computeHash(call.oldData) # computeHash(call.newData)) =>
    LET old == call.oldData
        new == call.newData
        Count(type) ==
          Cardinality({k \in 1..Len(ret.changes) : ret.changes[k].changeType = type})
        Matched(n) == {o \in 1..Len(old) : old[o].key = new[n].key}
    IN /\ Count("NEW_BINNACLE")
            = Cardinality({n \in 1..Len(new) : Matched(n) = {}})
       /\ Count("REMOVED_BINNACLE")
            = Cardinality({o \in 1..Len(old) :
                             \A n \in 1..Len(new) : new[n].key # old[o].key})
       /\ Count("MODIFIED_BINNACLE")
            = Cardinality({n \in 1..Len(new) :
                             \E o \in Matched(n) :
                               /\ \A m \in Matched(n) : m <= o
                               /\ old[o].acto # new[n].acto})

C26_PriorityFromNearestHour ==
  ret # <<>> =>
    LET hours == IF call.hourTimeToNotify = <<>> THEN <<1439>>
                 ELSE call.hourTimeToNotify
        Until(h) == IF h < call.clock THEN h + 1440 - call.clock ELSE h - call.clock
        nearest == CHOOSE m \in {Until(hours[i]) : i \in 1..Len(hours)} :
                     \A i \in 1..Len(hours) : m <= Until(hours[i])
    IN ret.priority = IF nearest < 60 THEN 1
                      ELSE IF nearest < 180 THEN 2
                      ELSE IF nearest < 360 THEN 3
                      ELSE 5

\* C27: lanes are served PRIORITY before INITIAL before MONITOR: a job of
\* the initial or monitor queue is started only when no job of the priority
\* queue is waiting, and a job of the monitor queue only when no job of the
\* initial queue is waiting either.
C27_PriorityLaneServedFirst ==
  [][\A j \in JobIdx :
       (jobs[j].state = "waiting" /\ jobs'[j].state = "active") =>
         \A i \in JobIdx :
           jobs[i].state = "waiting" =>
             /\ jobs[i].lane = QUEUE_PRIORITY => jobs[j].lane = QUEUE_PRIORITY
             /\ jobs[i].lane = QUEUE_INITIAL => jobs[j].lane # QUEUE_MONITOR]_vars

\* C28: solve tries the strategies in list order and returns the result of
\* the first one that is applicable and reports solved, invoking no later
\* strategy; a strategy that is not applicable, reports unsolved or throws
\* is passed over; if none succeeds the call fails with CaptchaFailed.
C28_FirstSuccessfulStrategyWins ==
  ret # <<>> =>
    LET st == call.strategies
        winners == {i \in 1..Len(st) : st[i] = "solved"}
        last == IF winners = {} THEN Len(st)
                ELSE CHOOSE i \in winners : \A k \in winners : i <= k
        Asked(i) == \E c \in 1..Len(ret.calls) : ret.calls[c] = <<"canHandle", i>>
        Tried(i) == \E c \in 1..Len(ret.calls) : ret.calls[c] = <<"solve", i>>
    IN /\ IF winners = {}
          THEN ret.solvedBy = None /\ ret.error = "CAPTCHA_FAILED"
          ELSE ret.solvedBy = last /\ ret.error = ""
       /\ \A i \in 1..Len(st) :
            /\ Asked(i) <=> i <= last
            /\ Tried(i) <=> (i <= last /\ st[i] \in {"unsolved", "solveThrows", "solved"})
       /\ \A c, d \in 1..Len(ret.calls) :
            c < d => ret.calls[c][2] <= ret.calls[d][2]

\* the first strategy threw, the second solved, the third was not invoked
C28_Witness ==
  /\ ret # <<>>
  /\ call.strategies = <<"solveThrows", "solved", "solved">>
  /\ ret.solvedBy = 2
  /\ ret.calls = <<<<"canHandle", 1>>, <<"solve", 1>>, <<"canHandle", 2>>, <<"solve", 2>>>>

\* C29: a stopWorkers call begins BrowserPool.drain() only when every Worker
\* was closed and has no job running (each attempt's promise has settled
\* and its slot was handed back), no caller holds a browser or has an
\* acquire() pending, and nobody waits in the pool's queue.
C29_DrainAfterWorkersStopped ==
  [][\A k \in Signals :
       (/\ sd[k].pc \notin {"draining", "drained"}
        /\ sd'[k].pc \in {"draining", "drained"}) =>
         /\ \A w \in Workers : /\ Closing(w)
                               /\ wk[w].pc = "idle"
                               /\ held[w] = None
                               /\ acq[w].st = "none"
         /\ waitQueue = <<>>]_vars

\* a signal arrived while a job was running, the job went on to the end of
\* its attempt, and the drain then closed the browser it had used
C29_Witness ==
  \E k \in Signals :
    /\ sd[k].busy # {}
    /\ sd[k].pc = "drained"
    /\ closed # {}
    /\ \A w \in Workers : wk[w].pc = "idle"

\* C30: once a shutdown signal was received, no cron firing enters the
\* cycle body any more (a cycle that was already running may go on); the
\* MONITOR jobs of such a cycle are the further jobs the claim excludes.
C30_NoTickAfterSignal ==
  [][(\E k \in Signals : sd[k].pc # "none") =>
       \A s \in TickSlots :
         ~(tick[s].pc = "idle" /\ tick'[s].pc = "planning")]_vars

\* C31: the attempts of a job are logged with the numbers 1, 2, 3 in order
\* (each start logs one more than the rows the job already has), a job has
\* at most MAX_ATTEMPTS of them, and a job that has made MAX_ATTEMPTS
\* attempts is finished: after a failing last attempt it is failed and is
\* neither waiting nor delayed for another one.
C31_AtMostThreeAttempts ==
  \A j \in JobIdx :
    /\ jobs[j].rows <= MAX_ATTEMPTS
    /\ jobs[j].attemptsMade <= MAX_ATTEMPTS
    /\ jobs[j].rows > 0 => jobs[j].row.attempt = jobs[j].rows
    /\ jobs[j].rows = jobs[j].attemptsMade + (IF jobs[j].state = "active" THEN 1 ELSE 0)
    /\ (jobs[j].attemptsMade = MAX_ATTEMPTS /\ jobs[j].row.status # "COMPLETED")
         => jobs[j].state = "failed"

\* a job failed three times and is failed, its last row numbered 3
C31_Witness ==
  \E j \in JobIdx :
    /\ jobs[j].state = "failed"
    /\ jobs[j].attemptsMade = MAX_ATTEMPTS
    /\ jobs[j].row.attempt = MAX_ATTEMPTS
    /\ jobs[j].row.code = "CAPTCHA_FAILED"

\* C32: every case file of a planned batch has, in the database state the
\* planner read, scrapeEnabled and isScanValid set and isArchived clear, and
\* belongs to a customer-has-bank whose customer has scraping switched on.
C32_PlannedCaseFilesAreEligible ==
  ret # <<>> =>
    \A b \in ret.batches : \A f \in b.caseFiles :
      LET cf == call.caseFile[f] IN
      /\ cf.scrapeEnabled
      /\ cf.isScanValid
      /\ ~cf.isArchived
      /\ cf.customerHasBankId = b.customerHasBankId
      /\ call.customer[cf.customerHasBankId].isScrapperActive

\* one case file was planned while the other, of the same customer-has-bank
\* and as due as the first, was left out for its invalid scan
C32_Witness ==
  /\ ret # <<>>
  /\ \E b \in ret.batches :
       /\ b.caseFiles = {1}
       /\ call.caseFile[2].customerHasBankId = b.customerHasBankId
       /\ call.caseFile[2] = [call.caseFile[1] EXCEPT !.isScanValid = FALSE]

\* C33: when drain() completes, the pool is empty and the browser of every
\* entry the pool held until then has been closed.
C33_DrainClosesEverySession ==
  [][(drainSt.st # "done" /\ drainSt'.st = "done") =>
       /\ pool' = <<>>
       /\ \A i \in 1..Len(pool) : pooled'[pool[i]].browser \in closed']_vars

\* C34: the pageCount of a pool entry never exceeds maxPagesPerBrowser,
\* whichever way its browser is handed out.
C34_PageCountWithinMax ==
  \A a \in DOMAIN pooled : pooled[a].pageCount <= maxPagesPerBrowser

\* C35: the token count of the bucket stays within [0, max]: no call takes
\* a token when less than a whole one is there.
C35_TokensWithinBounds ==
  bucket.tokens >= 0 /\ bucket.tokens <= BucketMax

\* C36: a caller whose acquire() is queued behind the full pool is handed
\* a browser in the end, when every holder releases in the end.
C36_QueuedAcquireCompletes ==
  \A t \in Tasks : (acq[t].st = "queued") ~> (acq[t].st # "queued")

\* C37: a pool entry marked in use always has a holder - a caller that holds
\* its browser, a caller whose acquire() resolved with it, or the acquire()
\* that is recycling it - so a failed replacement launch costs no capacity.
C37_InUseHasHolder ==
  \A i \in 1..Len(pool) :
    pooled[pool[i]].inUse =>
      \E t \in Tasks : \/ held[t] = pooled[pool[i]].browser
                       \/ acq[t].res = pooled[pool[i]].browser
                       \/ acq[t].ref = pool[i]

\* C38: when the previous Snapshot is not empty and the hash of the newly
\* scraped list differs from the hash of the previous one, the structured
\* diff holds at least one entry and detectChanges reports hasChanges, so
\* the scrape inserts a ChangeLogEntry and counts as a change.
C38_HashChangeIsLogged ==
  (/\ ret # <<>>
   /\ Len(call.oldData) > 0
   /\ computeHash(call.oldData) # computeHash(call.newData)) =>
    /\ Len(ret.changes) > 0
    /\ detectChanges(call.newData, call.oldData, computeHash(call.oldData)).hasChanges

\* C39: an attempt whose attachment download or upload failed does not
\* fail: it never reaches the catch block, goes on with the remaining
\* binnacles and saves the Snapshot.
C39_AttachmentFailureNotFatal ==
  \A j \in PJobs :
    pj[j].fileFault # "none" => pj[j].pc \notin {"catch", "failed"}

\* C40: no two JUDICIAL_BINNACLE rows carry the same (caseFile, index),
\* whatever the interleaving of the attempts for one CaseFile.
C40_CaseFileIndexUnique ==
  \A a, b \in BinnacleRowIds :
    (/\ binnacles[a].judicialFileCaseId = binnacles[b].judicialFileCaseId
     /\ binnacles[a].index = binnacles[b].index) => a = b

====
